---- MODULE Spec2Model ----
(***************************************************************************)
(* Harlowe concurrent edit-coordination engine: ThreadManager tasks,       *)
(* EphemeralWorkspace, MergeCoordinator, GitManager (VersionStore) and     *)
(* UndoManager, modelled from the Python sources.                          *)
(***************************************************************************)
EXTENDS Integers, Sequences, FiniteSets, TLC

(***************************************************************************)
(* Bounds of the model.                                                    *)
(***************************************************************************)
NThreads == 2
DocLen == 10
MaxSends == 2
MaxCancels == 1
MaxOps == 4

(***************************************************************************)
(* Program constants.                                                      *)
(***************************************************************************)
ContextLines == 3
MajorOverlap == 5
HistoryLimit == 100

Threads == 1..NThreads
None == 0

Min(a, b) == IF a < b THEN a ELSE b
Max(a, b) == IF a > b THEN a ELSE b

(***************************************************************************)
(* Text.  A file's content is the sequence of its lines; every line of the *)
(* documents used here ends with a newline, so splitlines/join are the     *)
(* identity on the sequences and a line is an opaque token.                *)
(***************************************************************************)
OrigLine(i) == <<"l", i>>
NewText(t) == <<"T", t>>
Doc0 == [i \in 1..DocLen |-> OrigLine(i)]

NoEdit == [kind |-> "none", at |-> 0, text |-> <<"-", 0>>]
Replace(n, x) == [kind |-> "replace", at |-> n, text |-> x]
InsertAfter(n, x) == [kind |-> "insert", at |-> n, text |-> x]

\* What the assistant subprocess may do to the workspace copy of the document.
EditChoices(t) ==
    {Replace(3, NewText(t))} \cup
    (IF t = 1 THEN {InsertAfter(1, NewText(t))} ELSE {Replace(DocLen, NewText(t))})

ApplyEdit(content, e) ==
    CASE e.kind = "replace" /\ e.at <= Len(content) ->
             [content EXCEPT ![e.at] = e.text]
      [] e.kind = "insert" /\ e.at <= Len(content) ->
             SubSeq(content, 1, e.at) \o <<e.text>> \o SubSeq(content, e.at + 1, Len(content))
      [] OTHER -> content

(***************************************************************************)
(* FileChange.from_diff: difflib.unified_diff of two line sequences that   *)
(* differ in one contiguous region, with ContextLines lines of context.    *)
(* A diff is a sequence of hunks; a hunk carries the four numbers printed  *)
(* in its header and its body lines tagged " ", "-" or "+".                *)
(***************************************************************************)
CommonPrefix(a, b) ==
    LET lim == Min(Len(a), Len(b))
        ks == {k \in 0..lim : \A i \in 1..k : a[i] = b[i]}
    IN CHOOSE k \in ks : \A j \in ks : j <= k

CommonSuffix(a, b, p) ==
    LET lim == Min(Len(a), Len(b)) - p
        ks == {k \in 0..lim : \A i \in 0..(k - 1) : a[Len(a) - i] = b[Len(b) - i]}
    IN CHOOSE k \in ks : \A j \in ks : j <= k

\* difflib._format_range_unified: the printed start of a range; an empty
\* range is printed one line earlier.
RangeStart(start, length) == IF length = 0 THEN start ELSE start + 1

Tagged(tag, ls) == [i \in 1..Len(ls) |-> [tag |-> tag, text |-> ls[i]]]

UnifiedDiff(original_lines, new_lines) ==
    IF original_lines = new_lines THEN <<>>
    ELSE
    LET n == Len(original_lines)
        m == Len(new_lines)
        p == CommonPrefix(original_lines, new_lines)
        s == CommonSuffix(original_lines, new_lines, p)
        before == Min(ContextLines, p)
        after == Min(ContextLines, s)
        lo == p - before
        old_count == (n - s + after) - lo
        new_count == (m - s + after) - lo
    IN << [old_start |-> RangeStart(lo, old_count),
           old_count |-> old_count,
           new_start |-> RangeStart(lo, new_count),
           new_count |-> new_count,
           lines |-> Tagged(" ", SubSeq(original_lines, lo + 1, p))
                     \o Tagged("-", SubSeq(original_lines, p + 1, n - s))
                     \o Tagged("+", SubSeq(new_lines, p + 1, m - s))
                     \o Tagged(" ", SubSeq(original_lines, n - s + 1, n - s + after))] >>

\* The header is printed without ",count" when a count is 1, and the regular
\* expression '@@ -(\d+),(\d+) \+(\d+),(\d+) @@' then does not match it.
HeaderMatches(h) == h.old_count # 1 /\ h.new_count # 1

(***************************************************************************)
(* MergeCoordinator._parse_line_ranges / LineRange.overlaps /              *)
(* _assess_severity.  There is one path (the document), so ranges are      *)
(* pairs of line numbers.                                                  *)
(***************************************************************************)
RECURSIVE ParseLineRanges(_)
ParseLineRanges(diff) ==
    IF diff = <<>> THEN <<>>
    ELSE LET h == Head(diff)
             rest == ParseLineRanges(Tail(diff))
         IN IF HeaderMatches(h)
            THEN <<[start_line |-> h.new_start, end_line |-> h.new_start + h.new_count]>> \o rest
            ELSE rest

Overlaps(a, b) == ~(a.end_line < b.start_line \/ a.start_line > b.end_line)

RECURSIVE AssessSeverityLoose(_)
AssessSeverityLoose(pairs) ==
    IF pairs = <<>> THEN "MINOR"
    ELSE LET a == Head(pairs)[1]
             b == Head(pairs)[2]
             overlap_size == Min(a.end_line, b.end_line) - Max(a.start_line, b.start_line)
         IN IF a.start_line = b.start_line /\ a.end_line = b.end_line THEN "BLOCKING"
            ELSE IF overlap_size >= MajorOverlap THEN "MAJOR"
            ELSE AssessSeverityLoose(Tail(pairs))

RECURSIVE AssessSeverity(_)
AssessSeverity(pairs) ==
    IF pairs = <<>> THEN "MINOR"
    ELSE LET a == Head(pairs)[1]
             b == Head(pairs)[2]
             overlap_size == Min(a.end_line, b.end_line) - Max(a.start_line, b.start_line)
         IN IF a.start_line = b.start_line /\ a.end_line = b.end_line THEN "BLOCKING"
            ELSE IF overlap_size > MajorOverlap THEN "MAJOR"
            ELSE AssessSeverity(Tail(pairs))

\* The pairs (range_a, range_b) of overlapping ranges, in the order of the
\* two nested loops of _detect_conflicts.
ConflictingRanges(ra, rb) ==
    LET idx == [k \in 1..(Len(ra) * Len(rb)) |->
                    <<ra[((k - 1) \div Len(rb)) + 1], rb[((k - 1) % Len(rb)) + 1]>>]
    IN SelectSeq(idx, LAMBDA pr : Overlaps(pr[1], pr[2]))

\* _detect_conflicts without the test of the retained merge's status.
DetectConflictsAnyStatus(line_ranges, pending) ==
    LET hit(k) == ConflictingRanges(line_ranges, pending[k].line_ranges) # <<>>
        ks == SelectSeq([k \in 1..Len(pending) |-> k], hit)
    IN [j \in 1..Len(ks) |->
            [merge_b |-> ks[j],
             thread_id |-> pending[ks[j]].thread_id,
             severity |-> AssessSeverity(
                 ConflictingRanges(line_ranges, pending[ks[j]].line_ranges))]]

\* _detect_conflicts: one Conflict per retained merge of status PENDING
\* that has an overlapping range; merge_b is given by its index.
DetectConflicts(line_ranges, pending) ==
    LET hit(k) == pending[k].status = "PENDING"
                  /\ ConflictingRanges(line_ranges, pending[k].line_ranges) # <<>>
        ks == SelectSeq([k \in 1..Len(pending) |-> k], hit)
    IN [j \in 1..Len(ks) |->
            [merge_b |-> ks[j],
             thread_id |-> pending[ks[j]].thread_id,
             severity |-> AssessSeverity(
                 ConflictingRanges(line_ranges, pending[ks[j]].line_ranges))]]

(***************************************************************************)
(* MergeCoordinator._apply_diff_manual, the interpreter that runs because  *)
(* the optional patch module is not importable (_apply_unified_diff).      *)
(* i counts the lines of the original consumed so far.  A diff line that   *)
(* begins with "+++" or "---" is skipped: the two file-header lines, and   *)
(* an added line whose text begins with "++" or a removed one whose text   *)
(* begins with "--".                                                       *)
(***************************************************************************)
\* The first field of a line tells how its text begins.
BeginsWith(text, two) == text[1] = two

RECURSIVE ApplyHunkLines(_, _, _, _)
ApplyHunkLines(original_lines, lines, result_lines, i) ==
    IF lines = <<>> THEN [result_lines |-> result_lines, i |-> i]
    ELSE LET l == Head(lines)
         IN CASE l.tag = "+" /\ ~BeginsWith(l.text, "++") ->
                   ApplyHunkLines(original_lines, Tail(lines), Append(result_lines, l.text), i)
              [] l.tag = "-" /\ ~BeginsWith(l.text, "--") ->
                   ApplyHunkLines(original_lines, Tail(lines), result_lines, i + 1)
              [] l.tag \in {"+", "-"} ->
                   ApplyHunkLines(original_lines, Tail(lines), result_lines, i)
              [] OTHER ->
                   IF i < Len(original_lines)
                   THEN ApplyHunkLines(original_lines, Tail(lines),
                                       Append(result_lines, original_lines[i + 1]), i + 1)
                   ELSE ApplyHunkLines(original_lines, Tail(lines), result_lines, i)

RECURSIVE ApplyHunks(_, _, _, _)
ApplyHunks(original_lines, hunks, result_lines, i) ==
    IF hunks = <<>> THEN [ok |-> TRUE, result_lines |-> result_lines, i |-> i]
    ELSE LET h == Head(hunks)
             old_start == h.old_start - 1
             upto == IF HeaderMatches(h) /\ old_start > i THEN old_start ELSE i
         IN IF upto > i /\ upto > Len(original_lines)
            THEN [ok |-> FALSE, result_lines |-> result_lines, i |-> i]
            ELSE LET r == ApplyHunkLines(original_lines, h.lines,
                                         result_lines \o SubSeq(original_lines, i + 1, upto),
                                         upto)
                 IN ApplyHunks(original_lines, Tail(hunks), r.result_lines, r.i)

ApplyDiffManual(original, diff) ==
    LET r == ApplyHunks(original, diff, <<>>, 0)
    IN IF r.ok
       THEN r.result_lines \o SubSeq(original, r.i + 1, Len(original))
       ELSE original

ApplyUnifiedDiff(original, diff) == ApplyDiffManual(original, diff)

(***************************************************************************)
(* State.                                                                  *)
(***************************************************************************)
VARIABLES
    doc,               \* content of the live document
    mirror,            \* content of .harlowe/<document name>
    repo_path,         \* "unavailable", "host" or "harlowe": GitManager.repo_path
    history,           \* the commits of the repository, oldest first
    threads,           \* ClaudeThreadManager.threads
    status,            \* CommentThread.status of the user threads
    msgCount,          \* len(thread.messages)
    awaiting,          \* CommentThread.awaiting_response
    meta,              \* CommentThread.metadata
    active_tasks,      \* ClaudeThreadManager.active_tasks
    active_processes,  \* ClaudeThreadManager.active_processes
    task,              \* the asyncio tasks, with their workspace and subprocess
    sender,            \* the send_message calls
    canceller,         \* the cancel_thread calls
    merge_lock,        \* MergeCoordinator.merge_lock: the task holding it
    pending_merges,    \* MergeCoordinator.pending_merges
    entryLog,          \* history: the queue_merge calls in gate-entry order
    cancelSnap,        \* history: cancel_thread calls made on a running subprocess
    undoLog,           \* history: the last undo/redo/merge operations
    budget,            \* remaining user operations
    max_concurrent,    \* ClaudeThreadManager.max_concurrent (None: no limit)
    args,              \* the arguments of a function applied on its own
    returned,          \* what it returned
    shutdown,          \* the shutdown call
    now,               \* time.time() in milliseconds
    workspaces,        \* the EphemeralWorkspace objects
    executor           \* the ClaudeExecutor with its processing tasks

\* The global cap, a function call observed on its own, shutdown, the
\* workspaces observed on their own and the ClaudeExecutor.
extVars == <<max_concurrent, args, returned, shutdown, now, workspaces, executor>>

vars == <<doc, mirror, repo_path, history, threads, status, msgCount, awaiting,
          meta, active_tasks, active_processes, task, sender, canceller,
          merge_lock, pending_merges, entryLog, cancelSnap, undoLog, budget, extVars>>

MaxTasksPer == 1 + MaxSends
TaskIds == Threads \X (1..MaxTasksPer)
SenderIds == Threads \X (1..MaxSends)

Absent == << <<"absent", 0>> >>
Unlocked == <<0, 0>>

NoTask == [pc |-> "none", orig |-> <<>>, edit |-> NoEdit, dir |-> "none",
           preserve |-> FALSE, cancelReq |-> FALSE, proc |-> "none",
           conflicts |-> <<>>, result |-> "none"]
\* called: the status of the thread when send_message was called.
NoSender == [phase |-> "idle", target |-> None, timedOut |-> FALSE, called |-> "NONE"]
NoCanceller == [phase |-> "idle", target |-> None]
NoMeta == [git_commit |-> None, reverted |-> FALSE, revert_commit |-> None,
           redo_commit |-> None]

UserThread(t) == [id |-> t, is_system_thread |-> FALSE, undo_target |-> None,
                  conflicts_with |-> <<>>, origin |-> "user"]

InBody(tk) == task[tk].pc = "qm_entered"
Finished(tk) == task[tk].pc \in {"done", "cancelled"}
Suspended(tk) == task[tk].pc \in {"spawned", "sem_wait", "reading", "qm_wait"}

\* EphemeralWorkspace.get_changes: the diff of the workspace copy against
\* the content snapshot taken when the workspace was entered.
TaskDiff(tk) == UnifiedDiff(task[tk].orig, ApplyEdit(task[tk].orig, task[tk].edit))

(***************************************************************************)
(* GitManager.                                                             *)
(***************************************************************************)
HeadTree == IF history = <<>> THEN Absent ELSE history[Len(history)].tree
ParentTree(h) == IF h = 1 THEN Absent ELSE history[h - 1].tree

\* _ensure_file_tracked: the .harlowe layout copies the document into the
\* repository directory; the host layout adds the document itself.
EnsureFileTracked(d) == IF repo_path = "harlowe" THEN d ELSE mirror

\* commit_merge that returns a hash although nothing was committed.
CommitMergeStaleHash(thread_id, d) ==
    IF repo_path = "unavailable"
    THEN [hash |-> Len(history) + 1, history |-> history, mirror |-> mirror]
    ELSE [hash |-> Len(history) + 1,
          history |-> Append(history, [kind |-> "merge", thread_id |-> thread_id,
                                       tree |-> d]),
          mirror |-> EnsureFileTracked(d)]

\* commit_merge: no hash without a repository; otherwise a new commit whose
\* message carries the thread id.
CommitMerge(thread_id, d) ==
    IF repo_path = "unavailable"
    THEN [hash |-> None, history |-> history, mirror |-> mirror]
    ELSE [hash |-> Len(history) + 1,
          history |-> Append(history, [kind |-> "merge", thread_id |-> thread_id,
                                       tree |-> d]),
          mirror |-> EnsureFileTracked(d)]

(***************************************************************************)
(* ClaudeThreadManager: create_thread and the per-invocation procedure.    *)
(***************************************************************************)
\* create_thread: a PENDING thread, its task spawned and registered.
CreateThread(t) ==
    /\ status[t] = "NONE"
    /\ status' = [status EXCEPT ![t] = "PENDING"]
    /\ threads' = Append(threads, UserThread(t))
    /\ task' = [task EXCEPT ![<<t, 1>>] = [NoTask EXCEPT !.pc = "spawned"]]
    /\ active_tasks' = [active_tasks EXCEPT ![t] = 1]
    /\ UNCHANGED <<doc, mirror, repo_path, extVars, history, msgCount, awaiting, meta,
                   active_processes, sender, canceller, merge_lock,
                   pending_merges, entryLog, cancelSnap, undoLog, budget>>

\* _process_thread holds the semaphore around _do_process_thread; the
\* initial task of a thread has index 1.  _process_message does not use it.
SemHolders == {tk \in TaskIds : tk[2] = 1 /\ task[tk].pc \in {"reading", "qm_wait", "qm_entered"}}
SemFree == max_concurrent = None \/ Cardinality(SemHolders) < max_concurrent

\* The first step of _process_thread (k = 1) or _process_message (k > 1),
\* up to the wait for the subprocess: the workspace is entered and the
\* subprocess spawned.  "enter_fail": __enter__ raises after mkdir, outside
\* the inner try.  "spawn_fail": create_subprocess_exec raises inside it,
\* preserve_for_debugging is called and __exit__ keeps the directory.
\* The edit is what the subprocess writes to the workspace copy before the
\* engine next looks at it (NoEdit: nothing yet, or nothing at all).
TaskStart(t, k) ==
    LET tk == <<t, k>> IN
    /\ task[tk].pc \in {"spawned", "sem_wait"}
    /\ k = 1 => SemFree
    /\ ~task[tk].cancelReq
    /\ \E outcome \in {"ok", "enter_fail", "spawn_fail"}, e \in EditChoices(t) \cup {NoEdit} :
        /\ outcome # "ok" => e = NoEdit
        /\ status' = [status EXCEPT ![t] =
                        IF k = 1 THEN (IF outcome = "ok" THEN "ACTIVE" ELSE "FAILED")
                        ELSE @]
        /\ awaiting' = [awaiting EXCEPT ![t] =
                        IF k > 1 /\ outcome # "ok" THEN FALSE ELSE @]
        /\ task' = [task EXCEPT ![tk] =
                        IF outcome = "ok"
                        THEN [@ EXCEPT !.pc = "reading", !.orig = doc, !.edit = e,
                                       !.dir = "exists", !.proc = "running"]
                        ELSE [@ EXCEPT !.pc = "done", !.dir = "exists",
                                       !.preserve = (outcome = "spawn_fail")]]
        /\ active_processes' =
              IF outcome = "ok" THEN [active_processes EXCEPT ![t] = k]
              ELSE IF k = 1 THEN [active_processes EXCEPT ![t] = None]
              ELSE active_processes
        /\ active_tasks' =
              IF outcome = "ok" THEN active_tasks
              ELSE [active_tasks EXCEPT ![t] = None]
    /\ UNCHANGED <<doc, mirror, repo_path, extVars, history, threads, msgCount, meta,
                   sender, canceller, merge_lock, pending_merges, entryLog,
                   cancelSnap, undoLog, budget>>

\* queue_merge, from the acquisition of merge_lock to the call of
\* _apply_merge: the ranges are parsed and the conflicts detected.
EnterGate(tk) ==
    [task EXCEPT ![tk] = [@ EXCEPT !.pc = "qm_entered", !.proc = "exited",
                             !.conflicts = DetectConflicts(
                                 ParseLineRanges(TaskDiff(tk)), pending_merges)]]

\* The task resumes with the response of the subprocess: messages are
\* appended, the changes computed and, if there are any, handed to
\* queue_merge; without changes the workspace is released and the task ends.
AfterResponse(t, k) ==
    LET tk == <<t, k>>
        has_changes == TaskDiff(tk) # <<>>
    IN
    /\ task[tk].pc = "reading"
    /\ ~task[tk].cancelReq
    /\ msgCount' = [msgCount EXCEPT ![t] = @ + (IF k = 1 THEN 2 ELSE 1)]
    /\ awaiting' = [awaiting EXCEPT ![t] = IF k > 1 THEN FALSE ELSE @]
    /\ active_processes' = [active_processes EXCEPT ![t] = None]
    /\ IF has_changes
       THEN IF merge_lock = Unlocked
            THEN /\ merge_lock' = tk
                 /\ task' = EnterGate(tk)
                 /\ entryLog' = Append(entryLog, [task |-> tk, status |-> "PENDING"])
                 /\ UNCHANGED active_tasks
            ELSE /\ task' = [task EXCEPT ![tk] = [@ EXCEPT !.pc = "qm_wait",
                                                           !.proc = "exited"]]
                 /\ UNCHANGED <<merge_lock, entryLog, active_tasks>>
       ELSE /\ task' = [task EXCEPT ![tk] = [@ EXCEPT !.pc = "done", !.dir = "deleted",
                                                      !.proc = "exited"]]
            /\ active_tasks' = [active_tasks EXCEPT ![t] = None]
            /\ UNCHANGED <<merge_lock, entryLog>>
    /\ UNCHANGED <<doc, mirror, repo_path, extVars, history, threads, status, meta,
                   sender, canceller, pending_merges, cancelSnap, undoLog, budget>>

\* A task that waited for merge_lock acquires it.
QmEnter(t, k) ==
    LET tk == <<t, k>> IN
    /\ task[tk].pc = "qm_wait"
    /\ ~task[tk].cancelReq
    /\ merge_lock = Unlocked
    /\ merge_lock' = tk
    /\ task' = EnterGate(tk)
    /\ entryLog' = Append(entryLog, [task |-> tk, status |-> "PENDING"])
    /\ UNCHANGED <<doc, mirror, repo_path, extVars, history, threads, status, msgCount,
                   awaiting, meta, active_tasks, active_processes, sender,
                   canceller, pending_merges, cancelSnap, undoLog, budget>>

\* _create_resolution_thread: a thread appended to the thread list; the
\* code sets no metadata on it.
MergeResolutionThread ==
    [id |-> 0 - (Len(threads) + 1), is_system_thread |-> FALSE, undo_target |-> None,
     conflicts_with |-> <<>>, origin |-> "merge_resolution"]

SetEntryStatus(tk, st) ==
    [i \in DOMAIN entryLog |->
        IF entryLog[i].task = tk THEN [entryLog[i] EXCEPT !.status = st] ELSE entryLog[i]]

\* queue_merge that leaves the gate held when the merge has failed.
QmApplyHoldsGate(t, k) ==
    LET tk == <<t, k>>
        diff == TaskDiff(tk)
        patched == ApplyUnifiedDiff(doc, diff)
        c == CommitMerge(t, patched)
        r == IF task[tk].conflicts # <<>> THEN "CONFLICTED"
             ELSE IF c.hash # None THEN "MERGED" ELSE "FAILED"
    IN
    /\ task[tk].pc = "qm_entered"
    /\ IF task[tk].conflicts = <<>>
       THEN /\ doc' = patched
            /\ history' = c.history
            /\ mirror' = c.mirror
            /\ meta' = IF c.hash # None
                       THEN [meta EXCEPT ![t].git_commit = c.hash] ELSE meta
            /\ msgCount' = [msgCount EXCEPT ![t] = @ + (IF c.hash # None THEN 2 ELSE 1)]
            /\ UNCHANGED threads
       ELSE /\ threads' = Append(threads, MergeResolutionThread)
            /\ msgCount' = [msgCount EXCEPT ![t] = @ + 1]
            /\ UNCHANGED <<doc, history, mirror, meta>>
    /\ pending_merges' =
          IF r = "MERGED" THEN pending_merges
          ELSE Append(pending_merges,
                      [thread_id |-> t, status |-> r,
                       line_ranges |-> ParseLineRanges(diff)])
    /\ entryLog' = SetEntryStatus(tk, r)
    /\ merge_lock' = IF r = "FAILED" THEN tk ELSE Unlocked
    /\ task' = [task EXCEPT ![tk] = [@ EXCEPT !.pc = "done", !.dir = "deleted",
                                              !.result = r]]
    /\ active_tasks' = [active_tasks EXCEPT ![t] = None]
    /\ active_processes' = IF k = 1 THEN [active_processes EXCEPT ![t] = None]
                           ELSE active_processes
    /\ UNCHANGED <<repo_path, extVars, status, awaiting, sender, canceller, cancelSnap,
                   undoLog, budget>>

\* queue_merge from conflict detection to the release of merge_lock, and
\* the rest of the task.  No conflict: _apply_merge reads, patches and
\* writes the document, commits and records the hash; the merge is MERGED
\* with a hash and FAILED (and retained) without one.  Conflict: the merge
\* is retained as CONFLICTED and a resolution thread created.  Then the
\* workspace is released (__exit__) and the task unregisters whatever is
\* registered under its thread id.
QmApply(t, k) ==
    LET tk == <<t, k>>
        diff == TaskDiff(tk)
        patched == ApplyUnifiedDiff(doc, diff)
        c == CommitMerge(t, patched)
        r == IF task[tk].conflicts # <<>> THEN "CONFLICTED"
             ELSE IF c.hash # None THEN "MERGED" ELSE "FAILED"
    IN
    /\ task[tk].pc = "qm_entered"
    /\ IF task[tk].conflicts = <<>>
       THEN /\ doc' = patched
            /\ history' = c.history
            /\ mirror' = c.mirror
            /\ meta' = IF c.hash # None
                       THEN [meta EXCEPT ![t].git_commit = c.hash] ELSE meta
            /\ msgCount' = [msgCount EXCEPT ![t] = @ + (IF c.hash # None THEN 2 ELSE 1)]
            /\ UNCHANGED threads
       ELSE /\ threads' = Append(threads, MergeResolutionThread)
            /\ msgCount' = [msgCount EXCEPT ![t] = @ + 1]
            /\ UNCHANGED <<doc, history, mirror, meta>>
    /\ pending_merges' =
          IF r = "MERGED" THEN pending_merges
          ELSE Append(pending_merges,
                      [thread_id |-> t, status |-> r,
                       line_ranges |-> ParseLineRanges(diff)])
    /\ entryLog' = SetEntryStatus(tk, r)
    /\ merge_lock' = Unlocked
    /\ task' = [task EXCEPT ![tk] = [@ EXCEPT !.pc = "done", !.dir = "deleted",
                                              !.result = r]]
    /\ active_tasks' = [active_tasks EXCEPT ![t] = None]
    /\ active_processes' = IF k = 1 THEN [active_processes EXCEPT ![t] = None]
                           ELSE active_processes
    /\ UNCHANGED <<repo_path, extVars, status, awaiting, sender, canceller, cancelSnap,
                   undoLog, budget>>

\* A cancelled task is resumed with CancelledError.  It is not an Exception:
\* no handler runs, the workspace is released by __exit__ and the finally
\* clause unregisters.  A task cancelled before its first step never runs.
TaskCancelled(t, k) ==
    LET tk == <<t, k>> IN
    /\ task[tk].cancelReq
    /\ Suspended(tk)
    /\ IF task[tk].pc = "spawned"
       THEN /\ task' = [task EXCEPT ![tk] = [@ EXCEPT !.pc = "cancelled",
                                                      !.cancelReq = FALSE]]
            /\ UNCHANGED <<active_tasks, active_processes>>
       ELSE /\ task' = [task EXCEPT ![tk] = [@ EXCEPT !.pc = "cancelled",
                                                      !.cancelReq = FALSE,
                                                      !.dir = IF @ = "none" THEN "none"
                                                              ELSE "deleted"]]
            /\ active_tasks' = [active_tasks EXCEPT ![t] = None]
            /\ active_processes' = IF k = 1
                                   THEN [active_processes EXCEPT ![t] = None]
                                   ELSE active_processes
    /\ UNCHANGED <<doc, mirror, repo_path, extVars, history, threads, status, msgCount,
                   awaiting, meta, sender, canceller, merge_lock, pending_merges,
                   entryLog, cancelSnap, undoLog, budget>>

(***************************************************************************)
(* cancel_thread.                                                          *)
(***************************************************************************)
\* The second half of cancel_thread: the registered task is cancelled and
\* awaited, then the thread is set to COMPLETED.
CancelTaskPart(t) ==
    IF active_tasks[t] # None /\ ~Finished(<<t, active_tasks[t]>>)
    THEN /\ ~InBody(<<t, active_tasks[t]>>)
         /\ task' = [task EXCEPT ![<<t, active_tasks[t]>>].cancelReq = TRUE]
         /\ canceller' = [canceller EXCEPT ![t] =
                             [phase |-> "waittask", target |-> active_tasks[t]]]
         /\ UNCHANGED status
    ELSE /\ status' = [status EXCEPT ![t] = "COMPLETED"]
         /\ canceller' = [canceller EXCEPT ![t] = NoCanceller]
         /\ UNCHANGED task

\* cancel_thread is called: a registered subprocess is terminated and
\* awaited; without one the task is cancelled at once.
CancelStart(t) ==
    /\ budget.cancels > 0
    /\ status[t] # "NONE"
    /\ canceller[t].phase = "idle"
    /\ budget' = [budget EXCEPT !.cancels = @ - 1]
    /\ IF active_processes[t] # None
       THEN LET pk == <<t, active_processes[t]>> IN
            /\ task' = [task EXCEPT ![pk].proc = "exited"]
            /\ canceller' = [canceller EXCEPT ![t] =
                                [phase |-> "waitproc", target |-> None]]
            /\ cancelSnap' = IF task[pk].proc = "running" /\ task[pk].pc = "reading"
                             THEN [cancelSnap EXCEPT ![t] = active_processes[t]]
                             ELSE cancelSnap
            /\ UNCHANGED status
       ELSE /\ CancelTaskPart(t)
            /\ UNCHANGED cancelSnap
    /\ UNCHANGED <<doc, mirror, repo_path, extVars, history, threads, msgCount, awaiting,
                   meta, active_tasks, active_processes, sender, merge_lock,
                   pending_merges, entryLog, undoLog>>

\* cancel_thread resumes after process.wait().
CancelAfterProc(t) ==
    /\ canceller[t].phase = "waitproc"
    /\ CancelTaskPart(t)
    /\ UNCHANGED <<doc, mirror, repo_path, extVars, history, threads, msgCount, awaiting,
                   meta, active_tasks, active_processes, sender, merge_lock,
                   pending_merges, entryLog, cancelSnap, undoLog, budget>>

\* cancel_thread resumes after the awaited task has ended.
CancelFinish(t) ==
    /\ canceller[t].phase = "waittask"
    /\ Finished(<<t, canceller[t].target>>)
    /\ status' = [status EXCEPT ![t] = "COMPLETED"]
    /\ canceller' = [canceller EXCEPT ![t] = NoCanceller]
    /\ UNCHANGED <<doc, mirror, repo_path, extVars, history, threads, msgCount, awaiting,
                   meta, active_tasks, active_processes, task, sender, merge_lock,
                   pending_merges, entryLog, cancelSnap, undoLog, budget>>

(***************************************************************************)
(* send_message.                                                           *)
(***************************************************************************)
NextTaskIndex(t) == CHOOSE k \in 1..MaxTasksPer :
                  /\ task[<<t, k>>].pc = "none"
                  /\ \A j \in 1..(k - 1) : task[<<t, j>>].pc # "none"
NextSender(t) == CHOOSE s \in 1..MaxSends :
                  /\ sender[<<t, s>>].phase = "idle"
                  /\ \A j \in 1..(s - 1) : sender[<<t, j>>].phase # "idle"

\* The second half of send_message: whatever is registered under the
\* thread id is unregistered, a COMPLETED thread is reopened, the user
\* message appended and a new task spawned and registered.
SendBody(t) ==
    /\ status' = [status EXCEPT ![t] = IF @ = "COMPLETED" THEN "ACTIVE" ELSE @]
    /\ msgCount' = [msgCount EXCEPT ![t] = @ + 1]
    /\ awaiting' = [awaiting EXCEPT ![t] = TRUE]
    /\ task' = [task EXCEPT ![<<t, NextTaskIndex(t)>>] = [NoTask EXCEPT !.pc = "spawned"]]
    /\ active_tasks' = [active_tasks EXCEPT ![t] = NextTaskIndex(t)]

\* send_message is called: it fails on a FAILED thread, waits for a
\* registered task that is not done, and otherwise proceeds at once.
SendStart(t) ==
    /\ budget.sends > 0
    /\ status[t] \notin {"NONE", "FAILED"}
    /\ budget' = [budget EXCEPT !.sends = @ - 1]
    /\ IF active_tasks[t] # None /\ ~Finished(<<t, active_tasks[t]>>)
       THEN /\ sender' = [sender EXCEPT ![<<t, NextSender(t)>>] =
                            [phase |-> "waiting", target |-> active_tasks[t],
                             timedOut |-> FALSE, called |-> status[t]]]
            /\ UNCHANGED <<status, msgCount, awaiting, task, active_tasks>>
       ELSE /\ SendBody(t)
            /\ UNCHANGED sender
    /\ UNCHANGED <<doc, mirror, repo_path, extVars, history, threads, meta,
                   active_processes, canceller, merge_lock, pending_merges,
                   entryLog, cancelSnap, undoLog>>

\* The 10-second wait expires: wait_for cancels the awaited task.
SendTimeout(t, s) ==
    LET sk == <<t, s>>
        tk == <<t, sender[sk].target>>
    IN
    /\ sender[sk].phase = "waiting"
    /\ ~sender[sk].timedOut
    /\ ~Finished(tk)
    /\ ~InBody(tk)
    /\ sender' = [sender EXCEPT ![sk].timedOut = TRUE]
    /\ task' = [task EXCEPT ![tk].cancelReq = TRUE]
    /\ UNCHANGED <<doc, mirror, repo_path, extVars, history, threads, status, msgCount,
                   awaiting, meta, active_tasks, active_processes, canceller,
                   merge_lock, pending_merges, entryLog, cancelSnap, undoLog,
                   budget>>

\* send_message resumes when the awaited task has ended.  If the task was
\* cancelled by someone else, the CancelledError leaves send_message.
SendResume(t, s) ==
    LET sk == <<t, s>>
        tk == <<t, sender[sk].target>>
    IN
    /\ sender[sk].phase = "waiting"
    /\ Finished(tk)
    /\ sender' = [sender EXCEPT ![sk] = NoSender]
    /\ IF task[tk].pc = "cancelled" /\ ~sender[sk].timedOut
       THEN UNCHANGED <<status, msgCount, awaiting, task, active_tasks>>
       ELSE SendBody(t)
    /\ UNCHANGED <<doc, mirror, repo_path, extVars, history, threads, meta,
                   active_processes, canceller, merge_lock, pending_merges,
                   entryLog, cancelSnap, undoLog, budget>>

(***************************************************************************)
(* The engine with its tasks.                                              *)
(***************************************************************************)
BaseCommit == [kind |-> "base", thread_id |-> None, tree |-> Doc0]

InitCommon ==
    /\ doc = Doc0
    /\ mirror = Absent
    /\ repo_path \in {"unavailable", "host", "harlowe"}
    /\ history = IF repo_path = "host" THEN <<BaseCommit>> ELSE <<>>
    /\ awaiting = [t \in Threads |-> FALSE]
    /\ meta = [t \in Threads |-> NoMeta]
    /\ active_tasks = [t \in Threads |-> None]
    /\ active_processes = [t \in Threads |-> None]
    /\ task = [tk \in TaskIds |-> NoTask]
    /\ sender = [sk \in SenderIds |-> NoSender]
    /\ canceller = [t \in Threads |-> NoCanceller]
    /\ merge_lock = Unlocked
    /\ pending_merges = <<>>
    /\ entryLog = <<>>
    /\ cancelSnap = [t \in Threads |-> None]
    /\ undoLog = <<>>

\* No function is applied on its own.
NoCall == args = None /\ returned = None

\* shutdown has not been called.
NoShutdown == [phase |-> "idle", stubborn |-> {}, tasks |-> {}, killed |-> FALSE]
ShutdownIdle == shutdown = NoShutdown

\* No workspace is observed on its own.
WorkspaceIdle == now = 0 /\ workspaces = <<>>

\* ClaudeExecutor.__init__: an empty queue, nothing processing.
NoExecutor == [queue |-> <<>>, is_processing |-> FALSE, tasks |-> <<>>, started |-> <<>>]
ExecutorIdle == executor = NoExecutor

\* No global cap.
ExtDefault == max_concurrent = None /\ NoCall /\ ShutdownIdle /\ WorkspaceIdle
              /\ ExecutorIdle

\* The engine with create_thread and cancel_thread.
Init ==
    /\ InitCommon
    /\ ExtDefault
    /\ threads = <<>>
    /\ status = [t \in Threads |-> "NONE"]
    /\ msgCount = [t \in Threads |-> 0]
    /\ budget = [sends |-> 0, cancels |-> MaxCancels, ops |-> 0]

NextTask ==
    \/ \E t \in Threads : CreateThread(t)
    \/ \E tk \in TaskIds : TaskStart(tk[1], tk[2])
    \/ \E tk \in TaskIds : AfterResponse(tk[1], tk[2])
    \/ \E tk \in TaskIds : QmEnter(tk[1], tk[2])
    \/ \E tk \in TaskIds : QmApply(tk[1], tk[2])
    \/ \E tk \in TaskIds : TaskCancelled(tk[1], tk[2])

Next ==
    \/ NextTask
    \/ \E t \in Threads : CancelStart(t)
    \/ \E t \in Threads : CancelAfterProc(t)
    \/ \E t \in Threads : CancelFinish(t)

Spec == Init /\ [][Next]_vars

\* The engine with create_thread and send_message, in a host repository
\* (send_message does not look at the repository).
InitSend ==
    /\ InitCommon
    /\ ExtDefault
    /\ repo_path = "host"
    /\ threads = <<>>
    /\ status = [t \in Threads |-> "NONE"]
    /\ msgCount = [t \in Threads |-> 0]
    /\ budget = [sends |-> MaxSends, cancels |-> 0, ops |-> 0]

NextSend ==
    \/ NextTask
    \/ \E t \in Threads : SendStart(t)
    \/ \E sk \in SenderIds : SendTimeout(sk[1], sk[2])
    \/ \E sk \in SenderIds : SendResume(sk[1], sk[2])

SpecSend == InitSend /\ [][NextSend]_vars

(***************************************************************************)
(* GitManager: revert.  git computes the revert of a commit as a three-way *)
(* merge with the commit's tree as base, HEAD as ours and the commit's     *)
(* parent as theirs.  Each side's change is taken as one region of base    *)
(* lines; two regions merge cleanly when at least one unchanged line lies  *)
(* between them.                                                           *)
(***************************************************************************)
ChangedRegion(base, x) ==
    LET p == CommonPrefix(base, x)
        s == CommonSuffix(base, x, p)
    IN [lo |-> p, hi |-> Len(base) - s, repl |-> SubSeq(x, p + 1, Len(x) - s)]

ThreeWay(base, ours, theirs) ==
    IF theirs = base \/ ours = theirs THEN [kind |-> "empty", tree |-> ours]
    ELSE IF ours = base THEN [kind |-> "clean", tree |-> theirs]
    ELSE IF Absent \in {base, ours, theirs} THEN [kind |-> "conflict", tree |-> ours]
    ELSE LET a == ChangedRegion(base, theirs)
             b == ChangedRegion(base, ours)
             delta == Len(ours) - Len(base)
         IN IF a.hi < b.lo
            THEN [kind |-> "clean",
                  tree |-> SubSeq(ours, 1, a.lo) \o a.repl
                           \o SubSeq(ours, a.hi + 1, Len(ours))]
            ELSE IF b.hi < a.lo
            THEN [kind |-> "clean",
                  tree |-> SubSeq(ours, 1, a.lo + delta) \o a.repl
                           \o SubSeq(ours, a.hi + delta + 1, Len(ours))]
            ELSE [kind |-> "conflict", tree |-> ours]

RevertMerge(h) == ThreeWay(history[h].tree, HeadTree, ParentTree(h))

\* can_revert_cleanly: the exit status of "git revert --no-commit", which
\* is 0 also when the revert changes nothing.
CanRevertCleanly(h) ==
    /\ repo_path # "unavailable"
    /\ RevertMerge(h).kind \in {"clean", "empty"}

\* revert_commit that amends the newest commit instead of adding one.
RevertCommitAmends(h) ==
    LET m == RevertMerge(h) IN
    IF repo_path = "unavailable"
    THEN [status |-> "NOT_AVAILABLE", hash |-> None, history |-> history, tree |-> HeadTree,
          aborted |-> FALSE]
    ELSE IF m.kind = "conflict"
    THEN [status |-> "CONFLICT", hash |-> None, history |-> history, tree |-> HeadTree,
          aborted |-> TRUE]
    ELSE IF m.kind = "empty"
    THEN [status |-> "ERROR", hash |-> None, history |-> history, tree |-> HeadTree,
          aborted |-> FALSE]
    ELSE [status |-> "ok", hash |-> Len(history),
          history |-> [history EXCEPT ![Len(history)] =
                          [kind |-> "revert", thread_id |-> history[h].thread_id,
                           tree |-> m.tree]],
          tree |-> m.tree, aborted |-> FALSE]

\* revert_commit: "git revert --no-edit".  A revert that changes nothing
\* fails with "nothing to commit" (ERROR); a conflict is aborted.  The
\* message of a revert commit quotes the reverted commit's subject, so
\* CommitInfo.from_log_entry reads the same thread id from it.
\* aborted: "git revert --abort" was run before the call returned, which
\* the code does only when the output of the failed revert says "conflict".
RevertCommit(h) ==
    LET m == RevertMerge(h) IN
    IF repo_path = "unavailable"
    THEN [status |-> "NOT_AVAILABLE", hash |-> None, history |-> history, tree |-> HeadTree,
          aborted |-> FALSE]
    ELSE IF m.kind = "conflict"
    THEN [status |-> "CONFLICT", hash |-> None, history |-> history, tree |-> HeadTree,
          aborted |-> TRUE]
    ELSE IF m.kind = "empty"
    THEN [status |-> "ERROR", hash |-> None, history |-> history, tree |-> HeadTree,
          aborted |-> FALSE]
    ELSE [status |-> "ok", hash |-> Len(history) + 1,
          history |-> Append(history, [kind |-> "revert",
                                       thread_id |-> history[h].thread_id,
                                       tree |-> m.tree]),
          tree |-> m.tree, aborted |-> FALSE]

\* get_history(limit): the newest commits first, at most limit of them.
GetHistory(limit) ==
    LET n == Min(limit, Len(history)) IN
    [i \in 1..n |-> [hash |-> Len(history) + 1 - i,
                     thread_id |-> history[Len(history) + 1 - i].thread_id]]

(***************************************************************************)
(* UndoManager.                                                            *)
(***************************************************************************)
CanUndo(t) == meta[t].git_commit # None /\ ~meta[t].reverted
CanRedo(t) == meta[t].reverted /\ meta[t].revert_commit # None

\* _find_conflicts: the known threads named by the commits that precede
\* the target commit in get_history(limit=100), in that order.
FindConflicts(t, commit_hash) ==
    LET hist == GetHistory(HistoryLimit)
        idx == {i \in 1..Len(hist) : hist[i].hash = commit_hash}
    IN IF idx = {} THEN <<>>
       ELSE LET target_index == CHOOSE i \in idx : TRUE
                newer == SelectSeq(SubSeq(hist, 1, target_index - 1),
                            LAMBDA ci : /\ ci.thread_id # None
                                        /\ \E j \in 1..Len(threads) :
                                              threads[j].id = ci.thread_id)
            IN [i \in 1..Len(newer) |-> newer[i].thread_id]

\* _create_undo_resolution_thread: the thread appended to the thread list.
UndoResolutionThread(t, commit_hash) ==
    [id |-> 0 - (Len(threads) + 1), is_system_thread |-> TRUE, undo_target |-> t,
     conflicts_with |-> FindConflicts(t, commit_hash), origin |-> "undo_resolution"]

\* _get_most_recent_undone_thread: the last undone thread of the list.
GetMostRecentUndoneThread ==
    LET undone == {j \in 1..Len(threads) :
                      threads[j].id \in Threads /\ CanRedo(threads[j].id)}
    IN IF undone = {} THEN None
       ELSE threads[CHOOSE j \in undone : \A i \in undone : i <= j].id

\* The last three operations, for the properties that speak of sequences.
Logged(e) == IF Len(undoLog) < 3 THEN Append(undoLog, e)
             ELSE <<undoLog[2], undoLog[3], e>>

\* The working-tree file of the repository is the live document in the
\* host layout and the mirrored copy in the .harlowe layout.
WriteWorkTree(tree) ==
    IF repo_path = "host" THEN doc' = tree /\ UNCHANGED mirror
    ELSE mirror' = tree /\ UNCHANGED doc

UndoFrame == <<repo_path, extVars, status, awaiting, active_tasks, active_processes, task,
               sender, canceller, merge_lock, entryLog, cancelSnap>>

\* One complete invocation of a thread with nothing else running: the
\* subprocess makes edit e to a copy of the current document and the diff
\* goes through queue_merge and _apply_merge.  (No merge is ever retained
\* as PENDING, so _detect_conflicts finds nothing.)
MergeOp(t, e) ==
    LET diff == UnifiedDiff(doc, ApplyEdit(doc, e))
        patched == ApplyUnifiedDiff(doc, diff)
        c == CommitMerge(t, patched)
    IN
    /\ budget.ops > 0
    /\ diff # <<>>
    /\ DetectConflicts(ParseLineRanges(diff), pending_merges) = <<>>
    /\ budget' = [budget EXCEPT !.ops = @ - 1]
    /\ doc' = patched
    /\ history' = c.history
    /\ mirror' = c.mirror
    /\ meta' = IF c.hash # None THEN [meta EXCEPT ![t].git_commit = c.hash] ELSE meta
    /\ msgCount' = [msgCount EXCEPT ![t] = @ + 2 + (IF c.hash # None THEN 2 ELSE 1)]
    /\ pending_merges' =
          IF c.hash # None THEN pending_merges
          ELSE Append(pending_merges, [thread_id |-> t, status |-> "FAILED",
                                       line_ranges |-> ParseLineRanges(diff)])
    /\ undoLog' = Logged([op |-> "merge", thread |-> t,
                          result |-> IF c.hash # None THEN "ok" ELSE "failed",
                          before |-> doc])
    /\ UNCHANGED threads
    /\ UNCHANGED UndoFrame

\* Somebody else commits to the host repository, HistoryLimit times; the
\* commits do not touch the document and name no thread.
ForeignCommits ==
    /\ budget.ops > 0
    /\ repo_path = "host"
    /\ budget' = [budget EXCEPT !.ops = @ - 1]
    /\ history' = history \o [i \in 1..HistoryLimit |->
                                [kind |-> "foreign", thread_id |-> None,
                                 tree |-> HeadTree]]
    /\ undoLog' = Logged([op |-> "foreign", thread |-> None, result |-> "ok",
                          before |-> doc])
    /\ UNCHANGED <<doc, mirror, threads, msgCount, meta, pending_merges>>
    /\ UNCHANGED UndoFrame

\* undo_thread that marks the thread reverted before looking at the result
\* of revert_commit.
UndoThreadMarksFirst(t) ==
    LET c == meta[t].git_commit
        r == RevertCommit(c)
        outcome == IF ~CanUndo(t) THEN "refused"
                   ELSE IF ~CanRevertCleanly(c) THEN "resolution"
                   ELSE IF r.status = "ok" THEN "ok" ELSE "failed"
    IN
    /\ budget.ops > 0
    /\ budget' = [budget EXCEPT !.ops = @ - 1]
    /\ msgCount' = [msgCount EXCEPT ![t] = @ + 1]
    /\ undoLog' = Logged([op |-> "undo", thread |-> t, result |-> outcome,
                          before |-> doc])
    /\ CASE outcome \in {"ok", "failed"} ->
              /\ history' = r.history
              /\ WriteWorkTree(r.tree)
              /\ meta' = [meta EXCEPT ![t].reverted = TRUE,
                                      ![t].revert_commit = r.hash]
              /\ UNCHANGED threads
         [] outcome = "resolution" ->
              /\ threads' = Append(threads, UndoResolutionThread(t, c))
              /\ UNCHANGED <<doc, mirror, history, meta>>
         [] OTHER -> UNCHANGED <<doc, mirror, history, meta, threads>>
    /\ UNCHANGED pending_merges
    /\ UNCHANGED UndoFrame

\* undo_thread: refused without a commit or when already undone; a clean
\* revert is executed by _execute_clean_undo; otherwise a resolution thread
\* is created.  Every path posts one message to the thread.
UndoThread(t) ==
    LET c == meta[t].git_commit
        r == RevertCommit(c)
        outcome == IF ~CanUndo(t) THEN "refused"
                   ELSE IF ~CanRevertCleanly(c) THEN "resolution"
                   ELSE IF r.status = "ok" THEN "ok" ELSE "failed"
    IN
    /\ budget.ops > 0
    /\ budget' = [budget EXCEPT !.ops = @ - 1]
    /\ msgCount' = [msgCount EXCEPT ![t] = @ + 1]
    /\ undoLog' = Logged([op |-> "undo", thread |-> t, result |-> outcome,
                          before |-> doc])
    /\ CASE outcome = "ok" ->
              /\ history' = r.history
              /\ WriteWorkTree(r.tree)
              /\ meta' = [meta EXCEPT ![t].reverted = TRUE,
                                      ![t].revert_commit = r.hash]
              /\ UNCHANGED threads
         [] outcome = "resolution" ->
              /\ threads' = Append(threads, UndoResolutionThread(t, c))
              /\ UNCHANGED <<doc, mirror, history, meta>>
         [] OTHER -> UNCHANGED <<doc, mirror, history, meta, threads>>
    /\ UNCHANGED pending_merges
    /\ UNCHANGED UndoFrame

\* redo_thread that records the new commit without the working tree being
\* restored.
RedoThreadStale(t) ==
    LET r == RevertCommit(meta[t].revert_commit)
        outcome == IF ~CanRedo(t) THEN "refused"
                   ELSE IF r.status = "ok" THEN "ok" ELSE "failed"
    IN
    /\ budget.ops > 0
    /\ budget' = [budget EXCEPT !.ops = @ - 1]
    /\ msgCount' = [msgCount EXCEPT ![t] = @ + 1]
    /\ undoLog' = Logged([op |-> "redo", thread |-> t, result |-> outcome,
                          before |-> doc])
    /\ IF outcome = "ok"
       THEN /\ history' = r.history
            /\ meta' = [meta EXCEPT ![t].reverted = FALSE,
                                    ![t].redo_commit = r.hash]
            /\ UNCHANGED <<doc, mirror>>
       ELSE UNCHANGED <<doc, mirror, history, meta>>
    /\ UNCHANGED <<threads, pending_merges>>
    /\ UNCHANGED UndoFrame

\* redo_thread with a thread: the thread's revert commit is reverted.
RedoThread(t) ==
    LET r == RevertCommit(meta[t].revert_commit)
        outcome == IF ~CanRedo(t) THEN "refused"
                   ELSE IF r.status = "ok" THEN "ok" ELSE "failed"
    IN
    /\ budget.ops > 0
    /\ budget' = [budget EXCEPT !.ops = @ - 1]
    /\ msgCount' = [msgCount EXCEPT ![t] = @ + 1]
    /\ undoLog' = Logged([op |-> "redo", thread |-> t, result |-> outcome,
                          before |-> doc])
    /\ IF outcome = "ok"
       THEN /\ history' = r.history
            /\ WriteWorkTree(r.tree)
            /\ meta' = [meta EXCEPT ![t].reverted = FALSE,
                                    ![t].redo_commit = r.hash]
       ELSE UNCHANGED <<doc, mirror, history, meta>>
    /\ UNCHANGED <<threads, pending_merges>>
    /\ UNCHANGED UndoFrame

\* redo_thread without a thread: the most recently undone thread, if any.
RedoLatest ==
    /\ GetMostRecentUndoneThread # None
    /\ RedoThread(GetMostRecentUndoneThread)

\* The engine at rest with its threads started, and the user merging,
\* undoing and redoing one operation at a time.
InitUndo ==
    /\ InitCommon
    /\ ExtDefault
    /\ threads = [t \in Threads |-> UserThread(t)]
    /\ status = [t \in Threads |-> "ACTIVE"]
    /\ msgCount = [t \in Threads |-> 2]
    /\ budget = [sends |-> 0, cancels |-> 0, ops |-> MaxOps]

NextUndo ==
    \/ \E t \in Threads : \E e \in EditChoices(t) : MergeOp(t, e)
    \/ ForeignCommits
    \/ \E t \in Threads : UndoThread(t)
    \/ \E t \in Threads : RedoThread(t)
    \/ RedoLatest

SpecUndo == InitUndo /\ [][NextUndo]_vars

(***************************************************************************)
(* Properties.                                                             *)
(***************************************************************************)
RepoAvailable == repo_path # "unavailable"
InitialHistory == IF repo_path = "host" THEN <<BaseCommit>> ELSE <<>>
TaskRanges(tk) == ParseLineRanges(TaskDiff(tk))
Settled == merge_lock = Unlocked /\ \A i \in DOMAIN entryLog : entryLog[i].status # "PENDING"

\* The document obtained from Doc0 by applying, in gate-entry order, the
\* diffs of the first i queue_merge calls that ended MERGED.
RECURSIVE SerialDocument(_)
SerialDocument(i) ==
    IF i = 0 THEN Doc0
    ELSE IF entryLog[i].status = "MERGED"
         THEN ApplyUnifiedDiff(SerialDocument(i - 1), TaskDiff(entryLog[i].task))
         ELSE SerialDocument(i - 1)

\* C1: no two queue_merge calls are inside the body at the same time, and
\* once no call is inside, the live document equals the result of applying
\* the diffs of the successful (MERGED) merges one after another in the
\* order in which the calls entered the gate.
C1_SerializedMerges ==
    /\ \A a, b \in TaskIds : InBody(a) /\ InBody(b) => a = b
    /\ Settled => doc = SerialDocument(Len(entryLog))

\* C2: for every thread, at no time do two of its subprocesses run, nor
\* are two of its tasks processing (started and not yet ended).
C2_OneInvocationPerThread ==
    \A t \in Threads :
        /\ Cardinality({k \in 1..MaxTasksPer : task[<<t, k>>].proc = "running"}) <= 1
        /\ Cardinality({k \in 1..MaxTasksPer :
                           task[<<t, k>>].pc \in {"reading", "qm_wait", "qm_entered"}}) <= 1

\* C3: when two threads started from the same document replace the same
\* line and both diffs have passed through queue_merge, the first to enter
\* is MERGED with a commit, the second is CONFLICTED with BLOCKING severity
\* and was not applied, a resolution thread is in the thread list, and the
\* document is the baseline with the first thread's replacement only.
C3_SameLineConflict ==
    (/\ RepoAvailable
     /\ Len(entryLog) = 2
     /\ Settled
     /\ entryLog[1].task[1] # entryLog[2].task[1]
     /\ task[entryLog[1].task].orig = task[entryLog[2].task].orig
     /\ task[entryLog[1].task].edit.kind = "replace"
     /\ task[entryLog[2].task].edit.kind = "replace"
     /\ task[entryLog[1].task].edit.at = task[entryLog[2].task].edit.at)
    => LET first == entryLog[1].task
           second == entryLog[2].task
       IN /\ entryLog[1].status = "MERGED"
          /\ meta[first[1]].git_commit # None
          /\ entryLog[2].status = "CONFLICTED"
          /\ task[second].conflicts # <<>>
          /\ \A i \in DOMAIN task[second].conflicts :
                task[second].conflicts[i].severity = "BLOCKING"
          /\ \E j \in DOMAIN threads : threads[j].origin = "merge_resolution"
          /\ doc = ApplyEdit(task[first].orig, task[first].edit)

\* C4: when two merges computed from the same baseline have line ranges
\* that do not overlap and both have passed through queue_merge, both are
\* MERGED, each thread has its own commit, and the document is the baseline
\* with both edits (the edit lower in the file applied first, so that the
\* other's position is the baseline position).
C4_NoConflictNoLoss ==
    (/\ RepoAvailable
     /\ Len(entryLog) = 2
     /\ Settled
     /\ entryLog[1].task[1] # entryLog[2].task[1]
     /\ task[entryLog[1].task].orig = task[entryLog[2].task].orig
     /\ \A i \in DOMAIN TaskRanges(entryLog[1].task) :
           \A j \in DOMAIN TaskRanges(entryLog[2].task) :
              ~Overlaps(TaskRanges(entryLog[1].task)[i], TaskRanges(entryLog[2].task)[j]))
    => LET a == entryLog[1].task
           b == entryLog[2].task
           upper == IF task[a].edit.at < task[b].edit.at THEN a ELSE b
           lower == IF upper = a THEN b ELSE a
       IN /\ entryLog[1].status = "MERGED"
          /\ entryLog[2].status = "MERGED"
          /\ meta[a[1]].git_commit # None
          /\ meta[b[1]].git_commit # None
          /\ meta[a[1]].git_commit # meta[b[1]].git_commit
          /\ doc = ApplyEdit(ApplyEdit(task[a].orig, task[lower].edit), task[upper].edit)

\* C5: when cancel_thread was called while the thread's subprocess was
\* running and its task had not yet handed a diff to queue_merge, then once
\* the cancel and the task have ended (no other thread existing) the
\* document is the initial one, the thread has no commit, the history is
\* the initial one and the workspace directory is deleted.
C5_CancelDropsDiff ==
    \A t \in Threads :
        (/\ cancelSnap[t] # None
         /\ canceller[t].phase = "idle"
         /\ Finished(<<t, cancelSnap[t]>>)
         /\ \A u \in Threads \ {t} : status[u] = "NONE")
        => /\ doc = Doc0
           /\ meta[t].git_commit = None
           /\ history = InitialHistory
           /\ task[<<t, cancelSnap[t]>>].dir = "deleted"

LogIs(i, op, t, result) ==
    /\ Len(undoLog) >= i
    /\ undoLog[i].op = op
    /\ undoLog[i].thread = t
    /\ undoLog[i].result = result

\* C6: when a thread's merge was committed and the next operation is an
\* undo of that thread whose revert is clean, the history ends with a
\* revert commit that is recorded as revert_commit, reverted is true, and
\* the live document is what it was before the merge, in either layout.
C6_CleanUndoRestores ==
    \A t \in Threads :
        (/\ Len(undoLog) = 2
         /\ LogIs(1, "merge", t, "ok")
         /\ LogIs(2, "undo", t, "ok"))
        => /\ history[Len(history)].kind = "revert"
           /\ meta[t].revert_commit = Len(history)
           /\ meta[t].reverted
           /\ doc = undoLog[1].before

C8_UndoWithInterveningEdit ==
    [][\A t \in Threads :
         (/\ budget'.ops < budget.ops
          /\ undoLog'[Len(undoLog')].op = "undo"
          /\ undoLog'[Len(undoLog')].thread = t
          /\ undoLog'[Len(undoLog')].result = "resolution")
         => /\ doc' = doc
            /\ history' = history
            /\ meta' = meta
            /\ Len(threads') = Len(threads) + 1
            /\ SubSeq(threads', 1, Len(threads)) = threads
            /\ threads'[Len(threads')].is_system_thread
            /\ threads'[Len(threads')].undo_target = t
            /\ {threads'[Len(threads')].conflicts_with[i] :
                   i \in DOMAIN threads'[Len(threads')].conflicts_with}
               = {u \in Threads :
                     \E h \in (meta[t].git_commit + 1)..Len(history) :
                        history[h].thread_id = u}
      ]_vars

\* C9: once an invocation that acquired a workspace has ended, its
\* workspace directory no longer exists or its preserve flag is set.
C9_WorkspaceReleased ==
    \A tk \in TaskIds :
        (Finished(tk) /\ task[tk].dir # "none")
        => (task[tk].dir = "deleted" \/ task[tk].preserve)

\* C10: a git_commit recorded in a thread's metadata is never changed by a
\* later step.
C10_GitCommitStable ==
    [][\A t \in Threads :
         meta[t].git_commit # None => meta'[t].git_commit = meta[t].git_commit]_vars

\* C11: no thread has reverted = true together with a recorded redo_commit.
C11_RevertedExcludesRedoCommit ==
    \A t \in Threads : ~(meta[t].reverted /\ meta[t].redo_commit # None)

\* C12: a thread whose status is FAILED keeps that status in every step.
C12_FailedIsTerminal ==
    [][\A t \in Threads : status[t] = "FAILED" => status'[t] = "FAILED"]_vars

(***************************************************************************)
(* The engine with a global cap.                                           *)
(***************************************************************************)
MaxConcurrent == 1

\* The first step of _process_thread when the semaphore has no permit left:
\* the task waits inside "async with self.semaphore".
SemWait(t) ==
    /\ task[<<t, 1>>].pc = "spawned"
    /\ ~task[<<t, 1>>].cancelReq
    /\ ~SemFree
    /\ task' = [task EXCEPT ![<<t, 1>>].pc = "sem_wait"]
    /\ UNCHANGED <<doc, mirror, repo_path, extVars, history, threads, status,
                   msgCount, awaiting, meta, active_tasks, active_processes,
                   sender, canceller, merge_lock, pending_merges, entryLog,
                   cancelSnap, undoLog, budget>>

InitCap ==
    /\ InitCommon
    /\ repo_path = "host"
    /\ max_concurrent = MaxConcurrent
    /\ NoCall
    /\ ShutdownIdle
    /\ WorkspaceIdle
    /\ ExecutorIdle
    /\ threads = <<>>
    /\ status = [t \in Threads |-> "NONE"]
    /\ msgCount = [t \in Threads |-> 0]
    /\ budget = [sends |-> 1, cancels |-> 0, ops |-> 0]

NextCap ==
    \/ NextTask
    \/ \E t \in Threads : SemWait(t)
    \/ \E t \in Threads : SendStart(t)
    \/ \E sk \in SenderIds : SendTimeout(sk[1], sk[2])
    \/ \E sk \in SenderIds : SendResume(sk[1], sk[2])

SpecCap == InitCap /\ [][NextCap]_vars

\* The tasks in their subprocess-execution phase.
InSubprocessPhase == {tk \in TaskIds : task[tk].pc = "reading"}

\* C13: with max_concurrent = N, at most N tasks, initial and follow-up
\* alike, are in their subprocess-execution phase.
C13_GlobalCap ==
    max_concurrent # None => Cardinality(InSubprocessPhase) <= max_concurrent

(***************************************************************************)
(* The engine with close_thread and reopen_thread.                         *)
(***************************************************************************)
\* close_thread: COMPLETED, whatever the status was.
CloseThread(t) ==
    /\ status[t] # "NONE"
    /\ status' = [status EXCEPT ![t] = "COMPLETED"]
    /\ UNCHANGED <<doc, mirror, repo_path, extVars, history, threads, msgCount,
                   awaiting, meta, active_tasks, active_processes, task,
                   sender, canceller, merge_lock, pending_merges, entryLog,
                   cancelSnap, undoLog, budget>>

\* reopen_thread: ACTIVE if the thread is COMPLETED; otherwise ValueError
\* is raised and nothing is assigned.
ReopenThread(t) ==
    /\ status[t] # "NONE"
    /\ status' = [status EXCEPT ![t] = IF @ = "COMPLETED" THEN "ACTIVE" ELSE @]
    /\ UNCHANGED <<doc, mirror, repo_path, extVars, history, threads, msgCount,
                   awaiting, meta, active_tasks, active_processes, task,
                   sender, canceller, merge_lock, pending_merges, entryLog,
                   cancelSnap, undoLog, budget>>

InitLife ==
    /\ InitCommon
    /\ ExtDefault
    /\ repo_path = "host"
    /\ threads = <<>>
    /\ status = [t \in Threads |-> "NONE"]
    /\ msgCount = [t \in Threads |-> 0]
    /\ budget = [sends |-> 0, cancels |-> MaxCancels, ops |-> 0]

NextLife ==
    \/ Next
    \/ \E t \in Threads : CloseThread(t)
    \/ \E t \in Threads : ReopenThread(t)

SpecLife == InitLife /\ [][NextLife]_vars

\* The status changes of the lifecycle.
LifecycleStep(old, new) ==
    \/ old = "NONE" /\ new = "PENDING"
    \/ old = "PENDING" /\ new = "ACTIVE"
    \/ old = "ACTIVE" /\ new = "COMPLETED"
    \/ old = "COMPLETED" /\ new = "ACTIVE"
    \/ old = "ACTIVE" /\ new = "FAILED"

\* The values assigned to thread.status in one step, in order.  The first
\* step of _process_thread assigns ACTIVE and, when the workspace or the
\* subprocess cannot be set up, FAILED in the same step; every other step
\* assigns at most once.
StatusAssigned(t) ==
    IF /\ task[<<t, 1>>].pc \in {"spawned", "sem_wait"}
       /\ task'[<<t, 1>>].pc = "done"
    THEN <<"ACTIVE", "FAILED">>
    ELSE IF status'[t] # status[t] THEN <<status'[t]>> ELSE <<>>

\* C14: every change of a thread's status is one of PENDING -> ACTIVE,
\* ACTIVE -> COMPLETED, COMPLETED -> ACTIVE, ACTIVE -> FAILED (after the
\* thread's creation as PENDING).
C14_LifecycleTransitions ==
    [][\A t \in Threads :
          LET a == StatusAssigned(t) IN
          \A i \in 1..Len(a) :
              LET old == IF i = 1 THEN status[t] ELSE a[i - 1] IN
              a[i] # old => LifecycleStep(old, a[i])]_vars

(***************************************************************************)
(* The engine with send_message and close_thread.                          *)
(***************************************************************************)
\* send_message on a FAILED thread: ValueError is raised before anything
\* is read or written.
SendFailed(t) ==
    /\ budget.sends > 0
    /\ status[t] = "FAILED"
    /\ budget' = [budget EXCEPT !.sends = @ - 1]
    /\ UNCHANGED <<doc, mirror, repo_path, extVars, history, threads, status,
                   msgCount, awaiting, meta, active_tasks, active_processes,
                   task, sender, canceller, merge_lock, pending_merges,
                   entryLog, cancelSnap, undoLog>>

InitReopen ==
    /\ InitCommon
    /\ ExtDefault
    /\ repo_path = "host"
    /\ threads = <<>>
    /\ status = [t \in Threads |-> "NONE"]
    /\ msgCount = [t \in Threads |-> 0]
    /\ budget = [sends |-> 1, cancels |-> 0, ops |-> 0]

NextReopen ==
    \/ NextSend
    \/ \E t \in Threads : SendFailed(t)
    \/ \E t \in Threads : CloseThread(t)

SpecReopen == InitReopen /\ [][NextReopen]_vars

\* The step in which a send_message call on thread t, made when the status
\* of t was st, gets past its wait: at once when no unfinished task is
\* registered, else when the awaited task has ended.
SendProceeds(t, st) ==
    \/ /\ budget'.sends < budget.sends
       /\ sender' = sender
       /\ active_tasks'[t] # active_tasks[t]
       /\ status[t] = st
    \/ \E s \in 1..MaxSends :
          /\ sender[<<t, s>>].phase = "waiting"
          /\ sender[<<t, s>>].called = st
          /\ sender'[<<t, s>>].phase = "idle"
          /\ ~(task[<<t, sender[<<t, s>>].target>>].pc = "cancelled"
                 /\ ~sender[<<t, s>>].timedOut)

\* The step in which send_message raises on a FAILED thread.
SendRaises ==
    /\ budget'.sends < budget.sends
    /\ sender' = sender
    /\ active_tasks' = active_tasks

\* C15: send_message on a COMPLETED thread sets it to ACTIVE, appends the
\* user message with awaiting_response = true and spawns a follow-up task;
\* on a FAILED thread it appends nothing, leaves awaiting_response alone
\* and spawns nothing.
C15_SendOnCompletedOrFailed ==
    [][/\ \A t \in Threads :
            SendProceeds(t, "COMPLETED") =>
                /\ status'[t] = "ACTIVE"
                /\ msgCount'[t] = msgCount[t] + 1
                /\ awaiting'[t]
                /\ active_tasks'[t] # None
                /\ task[<<t, active_tasks'[t]>>].pc = "none"
                /\ task'[<<t, active_tasks'[t]>>].pc = "spawned"
       /\ SendRaises =>
            /\ \E t \in Threads : status[t] = "FAILED"
            /\ UNCHANGED <<status, msgCount, awaiting, task>>]_vars

(***************************************************************************)
(* _assess_severity applied to one overlapping pair of ranges.             *)
(***************************************************************************)
MaxLine == 8

\* The ranges _parse_line_ranges can produce (end = start + count) and the
\* pairs _detect_conflicts hands to _assess_severity.
LineRanges == {r \in [start_line : 1..MaxLine, end_line : 1..MaxLine] :
                  r.start_line <= r.end_line}
OverlappingPairs == {pr \in LineRanges \X LineRanges : Overlaps(pr[1], pr[2])}

AssessPair ==
    /\ returned = "none"
    /\ returned' = AssessSeverity(<<args>>)
    /\ UNCHANGED <<doc, mirror, repo_path, max_concurrent, shutdown, now, workspaces,
                   args, history,
                   threads, status, msgCount, awaiting, meta, active_tasks,
                   active_processes, task, sender, canceller, merge_lock,
                   pending_merges, entryLog, cancelSnap, undoLog, budget, executor>>

InitSeverity ==
    /\ InitCommon
    /\ repo_path = "host"
    /\ max_concurrent = None
    /\ ShutdownIdle
    /\ WorkspaceIdle
    /\ ExecutorIdle
    /\ threads = <<>>
    /\ status = [t \in Threads |-> "NONE"]
    /\ msgCount = [t \in Threads |-> 0]
    /\ budget = [sends |-> 0, cancels |-> 0, ops |-> 0]
    /\ args \in OverlappingPairs
    /\ returned = "none"

NextSeverity == AssessPair

SpecSeverity == InitSeverity /\ [][NextSeverity]_vars

\* C16: for one overlapping pair the severity is BLOCKING iff the ranges
\* have equal start and end; otherwise MAJOR iff min(ends) - max(starts)
\* exceeds 5; otherwise MINOR.
C16_SeverityOfPair ==
    returned # "none" =>
        LET a == args[1]
            b == args[2]
            equal == a.start_line = b.start_line /\ a.end_line = b.end_line
            wide == Min(a.end_line, b.end_line) - Max(a.start_line, b.start_line) > 5
        IN /\ returned = "BLOCKING" <=> equal
           /\ returned = "MAJOR" <=> (~equal /\ wide)
           /\ returned = "MINOR" <=> (~equal /\ ~wide)

\* An overlap of exactly six lines between different ranges was assessed.
C16_Witness ==
    /\ returned = "MAJOR"
    /\ Min(args[1].end_line, args[2].end_line)
         - Max(args[1].start_line, args[2].start_line) = 6

(***************************************************************************)
(* FileChange.from_diff followed by _apply_unified_diff, on its own.       *)
(***************************************************************************)
MaxText == 3

\* Lines of a document: ordinary ones, one that begins with "--" and a
\* blank one; lines written by an edit: an ordinary one and one that
\* begins with "++".
OldLines == {OrigLine(1), OrigLine(2), OrigLine(3), <<"--", 1>>, <<"", 0>>}
NewLines == {NewText(1), <<"++", 1>>}

\* The originals (lines pairwise different, each ending with a newline)
\* and the modified texts one edit away from them.
Originals == UNION {{o \in [1..n -> OldLines] : \A i, j \in 1..n : o[i] = o[j] => i = j} :
                       n \in 1..MaxText}
Edits(o) == {Replace(n, x) : n \in 1..Len(o), x \in NewLines}
            \cup {InsertAfter(n, x) : n \in 1..Len(o), x \in NewLines}

DiffRoundTrip ==
    /\ returned = <<>>
    /\ returned' = <<ApplyUnifiedDiff(args[1], UnifiedDiff(args[1], args[2]))>>
    /\ UNCHANGED <<doc, mirror, repo_path, max_concurrent, shutdown, now, workspaces,
                   args, history,
                   threads, status, msgCount, awaiting, meta, active_tasks,
                   active_processes, task, sender, canceller, merge_lock,
                   pending_merges, entryLog, cancelSnap, undoLog, budget, executor>>

InitDiff ==
    /\ InitCommon
    /\ repo_path = "host"
    /\ max_concurrent = None
    /\ ShutdownIdle
    /\ WorkspaceIdle
    /\ ExecutorIdle
    /\ threads = <<>>
    /\ status = [t \in Threads |-> "NONE"]
    /\ msgCount = [t \in Threads |-> 0]
    /\ budget = [sends |-> 0, cancels |-> 0, ops |-> 0]
    /\ \E o \in Originals : \E e \in Edits(o) : args = <<o, ApplyEdit(o, e)>>
    /\ returned = <<>>

NextDiff == DiffRoundTrip

SpecDiff == InitDiff /\ [][NextDiff]_vars

\* C17: the unified diff of O and M, applied to O, yields M.
C17_DiffRoundTrip ==
    returned # <<>> => returned[1] = args[2]

(***************************************************************************)
(* GitManager.commit_merge, get_commit_metadata and CommitInfo on their    *)
(* own.  A text is a sequence of pieces: words, one space " ", a newline   *)
(* "\n" and the words "harlowe:", "Thread", "Lines:" and "Message:".       *)
(***************************************************************************)
MaxPieces == 3

Absent1 == <<"None">>
Whitespace == {" ", "\n"}

\* str.find: the first position at which pat occurs in s, 0 if none.
FirstAt(s, pat) ==
    LET hits == {i \in 1..(Len(s) - Len(pat) + 1) : SubSeq(s, i, i + Len(pat) - 1) = pat}
    IN IF hits = {} THEN 0 ELSE CHOOSE i \in hits : \A j \in hits : i <= j

\* s.split(pat)[1], for a pat that occurs in s.
SplitSecond(s, pat) ==
    LET i == FirstAt(s, pat)
        rest == SubSeq(s, i + Len(pat), Len(s))
        j == FirstAt(rest, pat)
    IN IF j = 0 THEN rest ELSE SubSeq(rest, 1, j - 1)

\* s.split(sep)[0] for a one-piece separator.
UpTo(s, seps) ==
    LET hits == {i \in 1..Len(s) : s[i] \in seps}
    IN IF hits = {} THEN s
       ELSE SubSeq(s, 1, (CHOOSE i \in hits : \A j \in hits : i <= j) - 1)

RECURSIVE LStrip(_)
LStrip(s) == IF s # <<>> /\ Head(s) \in Whitespace THEN LStrip(Tail(s)) ELSE s

RECURSIVE RStripOf(_, _)
RStripOf(s, set) ==
    IF s # <<>> /\ s[Len(s)] \in set THEN RStripOf(SubSeq(s, 1, Len(s) - 1), set) ELSE s

\* str.strip().
Strip(s) == RStripOf(LStrip(s), Whitespace)

\* s.split()[0]: the first run of non-whitespace; IndexError if there is none.
FirstWord(s) == IF LStrip(s) = <<>> THEN Absent1 ELSE UpTo(LStrip(s), Whitespace)

\* The lines of a text, and the text of lines.
RECURSIVE SplitLines(_)
SplitLines(s) ==
    LET i == FirstAt(s, <<"\n">>)
    IN IF i = 0 THEN <<s>>
       ELSE <<SubSeq(s, 1, i - 1)>> \o SplitLines(SubSeq(s, i + 1, Len(s)))

RECURSIVE JoinLines(_)
JoinLines(ls) ==
    IF ls = <<>> THEN <<>>
    ELSE IF Len(ls) = 1 THEN ls[1]
    ELSE ls[1] \o <<"\n">> \o JoinLines(Tail(ls))

\* git commit -m: trailing spaces of every line go, runs of empty lines
\* become one, empty lines at both ends go.
RECURSIVE Squeeze(_)
Squeeze(ls) ==
    IF Len(ls) < 2 THEN ls
    ELSE IF ls[1] = <<>> /\ ls[2] = <<>> THEN Squeeze(Tail(ls))
    ELSE <<ls[1]>> \o Squeeze(Tail(ls))

RECURSIVE DropEmptyHead(_)
DropEmptyHead(ls) == IF ls # <<>> /\ Head(ls) = <<>> THEN DropEmptyHead(Tail(ls)) ELSE ls

RECURSIVE DropEmptyLast(_)
DropEmptyLast(ls) ==
    IF ls # <<>> /\ ls[Len(ls)] = <<>> THEN DropEmptyLast(SubSeq(ls, 1, Len(ls) - 1)) ELSE ls

GitCleanup(text) ==
    LET stripped == [i \in 1..Len(SplitLines(text)) |-> RStripOf(SplitLines(text)[i], {" "})]
    IN JoinLines(DropEmptyLast(DropEmptyHead(Squeeze(stripped))))

\* commit_merge: the message that is committed.
CommitMsg(thread_id, message, lines_affected) ==
    <<"harlowe:", " ", "Thread", " ">> \o thread_id \o <<" ", "-", " ">> \o message
    \o (IF lines_affected # <<>> THEN <<"\n", "Lines:", " ">> \o lines_affected ELSE <<>>)
    \o <<"\n", "Message:", " ">> \o thread_id

\* git log --format=%B, stripped.
LogBody(committed) == Strip(GitCleanup(committed))

\* get_commit_metadata.
MetadataOf(message) ==
    [thread_id |-> IF FirstAt(message, <<"Thread", " ">>) # 0
                   THEN UpTo(SplitSecond(message, <<"Thread", " ">>), {" "})
                   ELSE Absent1,
     lines_affected |-> IF FirstAt(message, <<"Lines:", " ">>) # 0
                        THEN UpTo(SplitSecond(message, <<"Lines:", " ">>), {"\n"})
                        ELSE Absent1]

\* CommitInfo.from_log_entry.
FromLogEntry(message) ==
    IF FirstAt(message, <<"harlowe:", " ", "Thread">>) = 0
    THEN [thread_id |-> Absent1, lines_affected |-> Absent1]
    ELSE [thread_id |-> FirstWord(SplitSecond(message, <<"Thread", " ">>)),
          lines_affected |-> IF FirstAt(message, <<"\n", "Lines:", " ">>) # 0
                             THEN Strip(UpTo(SplitSecond(message, <<"\n", "Lines:", " ">>), {"\n"}))
                             ELSE Absent1]

\* The texts given to commit_merge.
Texts(pieces) == UNION {[1..n -> pieces] : n \in 0..MaxPieces}
MessageTexts == Texts({"fix", "Lines:", " ", "\n"})
LinesTexts == Texts({"3-4", " "})

CommitAndRead ==
    /\ returned = <<>>
    /\ LET body == LogBody(CommitMsg(args.thread_id, args.message, args.lines_affected))
       IN returned' = <<[metadata |-> MetadataOf(body), info |-> FromLogEntry(body)]>>
    /\ UNCHANGED <<doc, mirror, repo_path, max_concurrent, shutdown, now, workspaces,
                   args, history,
                   threads, status, msgCount, awaiting, meta, active_tasks,
                   active_processes, task, sender, canceller, merge_lock,
                   pending_merges, entryLog, cancelSnap, undoLog, budget, executor>>

InitCommitMsg ==
    /\ InitCommon
    /\ repo_path = "host"
    /\ max_concurrent = None
    /\ ShutdownIdle
    /\ WorkspaceIdle
    /\ ExecutorIdle
    /\ threads = <<>>
    /\ status = [t \in Threads |-> "NONE"]
    /\ msgCount = [t \in Threads |-> 0]
    /\ budget = [sends |-> 0, cancels |-> 0, ops |-> 0]
    /\ args \in [thread_id : {<<"t1">>}, message : MessageTexts, lines_affected : LinesTexts]
    /\ returned = <<>>

NextCommitMsg == CommitAndRead

SpecCommitMsg == InitCommitMsg /\ [][NextCommitMsg]_vars

\* A lines string without the white space around it; an empty one is not
\* recorded.
Trimmed(lines) == IF Strip(lines) = <<>> THEN Absent1 ELSE Strip(lines)

\* C18: get_commit_metadata and CommitInfo give back the thread_id and the
\* lines_affected that commit_merge was given (white space around the
\* lines string aside).
C18_CommitMetadataRoundTrip ==
    returned # <<>> =>
        /\ returned[1].metadata.thread_id = args.thread_id
        /\ returned[1].info.thread_id = args.thread_id
        /\ Trimmed(returned[1].metadata.lines_affected) = Trimmed(args.lines_affected)
        /\ Trimmed(returned[1].info.lines_affected) = Trimmed(args.lines_affected)

(***************************************************************************)
(* shutdown.                                                               *)
(***************************************************************************)
\* The tasks registered in active_tasks and those whose subprocess is
\* registered in active_processes.
RegisteredTasks == {tk \in TaskIds : active_tasks[tk[1]] = tk[2]}
RegisteredProcs == {tk \in TaskIds : active_processes[tk[1]] = tk[2]}

\* shutdown runs between the steps of the tasks, never inside one.
ShutdownMayRun == \A tk \in TaskIds : ~InBody(tk)

\* The second half of shutdown: the processes in gone have exited, every
\* registered task that is not done is cancelled, and the tasks are
\* awaited; without tasks the tables are cleared at once.
ShutdownTaskPart(gone, wasKilled) ==
    /\ task' = [tk \in TaskIds |->
                   [task[tk] EXCEPT
                       !.proc = IF tk \in gone THEN "exited" ELSE @,
                       !.cancelReq = IF tk \in RegisteredTasks /\ ~Finished(tk)
                                     THEN TRUE ELSE @]]
    /\ IF RegisteredTasks = {}
       THEN /\ shutdown' = [shutdown EXCEPT !.phase = "done", !.stubborn = {},
                                            !.killed = wasKilled]
            /\ active_processes' = [t \in Threads |-> None]
            /\ active_tasks' = [t \in Threads |-> None]
       ELSE /\ shutdown' = [shutdown EXCEPT !.phase = "waittasks", !.stubborn = {},
                                            !.tasks = RegisteredTasks,
                                            !.killed = wasKilled]
            /\ UNCHANGED <<active_processes, active_tasks>>

\* shutdown is called: every registered process is sent terminate; those
\* in stubborn ignore it, the others exit (or had exited already).
ShutdownStart ==
    /\ shutdown.phase = "idle"
    /\ ShutdownMayRun
    /\ \E stubborn \in SUBSET RegisteredProcs :
          IF RegisteredProcs = {}
          THEN ShutdownTaskPart({}, FALSE)
          ELSE /\ shutdown' = [shutdown EXCEPT !.phase = "waitprocs",
                                               !.stubborn = stubborn]
               /\ task' = [tk \in TaskIds |->
                              IF tk \in RegisteredProcs \ stubborn
                              THEN [task[tk] EXCEPT !.proc = "exited"]
                              ELSE task[tk]]
               /\ UNCHANGED <<active_processes, active_tasks>>
    /\ UNCHANGED <<doc, mirror, repo_path, max_concurrent, args, returned, now,
                   workspaces, history, threads, status, msgCount, awaiting,
                   meta, sender, canceller, merge_lock, pending_merges,
                   entryLog, cancelSnap, undoLog, budget, executor>>

\* The wait that has no timeout: it ends only when every process has exited.
ShutdownAfterProcsNoTimeout ==
    /\ shutdown.stubborn = {}
    /\ shutdown.phase = "waitprocs"
    /\ ShutdownMayRun
    /\ ShutdownTaskPart({}, FALSE)
    /\ UNCHANGED <<doc, mirror, repo_path, max_concurrent, args, returned, now,
                   workspaces, history, threads, status, msgCount, awaiting,
                   meta, sender, canceller, merge_lock, pending_merges,
                   entryLog, cancelSnap, undoLog, budget, executor>>

\* The wait for the processes ends: all have exited, or five seconds have
\* passed and every process of the snapshot is sent kill.
ShutdownAfterProcs ==
    /\ shutdown.phase = "waitprocs"
    /\ ShutdownMayRun
    /\ ShutdownTaskPart(shutdown.stubborn, shutdown.stubborn # {})
    /\ UNCHANGED <<doc, mirror, repo_path, max_concurrent, args, returned, now,
                   workspaces, history, threads, status, msgCount, awaiting,
                   meta, sender, canceller, merge_lock, pending_merges,
                   entryLog, cancelSnap, undoLog, budget, executor>>

\* Every awaited task has ended: both tables are cleared and shutdown returns.
ShutdownFinish ==
    /\ shutdown.phase = "waittasks"
    /\ ShutdownMayRun
    /\ \A tk \in shutdown.tasks : Finished(tk)
    /\ shutdown' = [shutdown EXCEPT !.phase = "done", !.tasks = {}]
    /\ active_processes' = [t \in Threads |-> None]
    /\ active_tasks' = [t \in Threads |-> None]
    /\ UNCHANGED <<doc, mirror, repo_path, max_concurrent, args, returned, now,
                   workspaces, history, threads, status, msgCount, awaiting,
                   meta, task, sender, canceller, merge_lock, pending_merges,
                   entryLog, cancelSnap, undoLog, budget, executor>>

InitShutdown ==
    /\ InitCommon
    /\ ExtDefault
    /\ repo_path = "host"
    /\ threads = <<>>
    /\ status = [t \in Threads |-> "NONE"]
    /\ msgCount = [t \in Threads |-> 0]
    /\ budget = [sends |-> 0, cancels |-> MaxCancels, ops |-> 0]

NextShutdown ==
    \/ Next
    \/ ShutdownStart
    \/ ShutdownAfterProcs
    \/ ShutdownFinish

SpecShutdown == InitShutdown /\ [][NextShutdown]_vars

\* The event loop resumes a cancelled task with CancelledError, and the
\* waits of shutdown end: the one for the processes after five seconds at
\* the latest.  A task inside queue_merge runs on to its end (QmApply is
\* enabled whenever a task is there, so this is weak fairness of QmApply).
FairShutdown ==
    /\ []<>(\A tk \in TaskIds : ~InBody(tk))
    /\ WF_vars(\E tk \in TaskIds : TaskCancelled(tk[1], tk[2]))
    /\ WF_vars(ShutdownAfterProcs)
    /\ WF_vars(ShutdownFinish)

LiveShutdown == SpecShutdown /\ FairShutdown

\* C19: a shutdown that was called returns, and in the step in which it
\* returns active_processes and active_tasks are empty.
C19_ShutdownTerminates ==
    /\ (shutdown.phase # "idle") ~> (shutdown.phase = "done")
    /\ [][(shutdown.phase # "done" /\ shutdown'.phase = "done") =>
            /\ \A t \in Threads : active_processes'[t] = None
            /\ \A t \in Threads : active_tasks'[t] = None]_vars

\* shutdown has returned after a process ignored terminate and was killed.
C19_Witness == shutdown.phase = "done" /\ shutdown.killed

(***************************************************************************)
(* EphemeralWorkspace on its own.                                          *)
(***************************************************************************)
MaxWorkspaces == 3
MaxClock == 2

\* The message ids msg-1, msg-2.
MessageIds == 1..2

\* __init__: the directory is named after the thread id, the message id and
\* the clock in milliseconds.
WsConstruct(t, m) ==
    /\ Len(workspaces) < MaxWorkspaces
    /\ workspaces' = Append(workspaces,
                            [thread_id |-> t, message_id |-> m,
                             workspace_dir |-> <<t, m, now>>, state |-> "constructed"])
    /\ UNCHANGED <<doc, mirror, repo_path, max_concurrent, args, returned,
                   shutdown, now, history, threads, status, msgCount, awaiting,
                   meta, active_tasks, active_processes, task, sender,
                   canceller, merge_lock, pending_merges, entryLog, cancelSnap,
                   undoLog, budget, executor>>

\* __enter__: mkdir(parents=True, exist_ok=True) succeeds whether or not
\* the directory exists.
WsEnter(i) ==
    /\ workspaces[i].state = "constructed"
    /\ workspaces' = [workspaces EXCEPT ![i].state = "entered"]
    /\ UNCHANGED <<doc, mirror, repo_path, max_concurrent, args, returned,
                   shutdown, now, history, threads, status, msgCount, awaiting,
                   meta, active_tasks, active_processes, task, sender,
                   canceller, merge_lock, pending_merges, entryLog, cancelSnap,
                   undoLog, budget, executor>>

\* __exit__.
WsExit(i) ==
    /\ workspaces[i].state = "entered"
    /\ workspaces' = [workspaces EXCEPT ![i].state = "exited"]
    /\ UNCHANGED <<doc, mirror, repo_path, max_concurrent, args, returned,
                   shutdown, now, history, threads, status, msgCount, awaiting,
                   meta, active_tasks, active_processes, task, sender,
                   canceller, merge_lock, pending_merges, entryLog, cancelSnap,
                   undoLog, budget, executor>>

\* A millisecond passes.
Tick ==
    /\ now < MaxClock
    /\ now' = now + 1
    /\ UNCHANGED <<doc, mirror, repo_path, max_concurrent, args, returned,
                   shutdown, workspaces, history, threads, status, msgCount,
                   awaiting, meta, active_tasks, active_processes, task,
                   sender, canceller, merge_lock, pending_merges, entryLog,
                   cancelSnap, undoLog, budget, executor>>

InitWorkspace ==
    /\ InitCommon
    /\ ExtDefault
    /\ repo_path = "host"
    /\ threads = <<>>
    /\ status = [t \in Threads |-> "NONE"]
    /\ msgCount = [t \in Threads |-> 0]
    /\ budget = [sends |-> 0, cancels |-> 0, ops |-> 0]

NextWorkspace ==
    \/ \E t \in Threads, m \in MessageIds : WsConstruct(t, m)
    \/ \E i \in 1..Len(workspaces) : WsEnter(i)
    \/ \E i \in 1..Len(workspaces) : WsExit(i)
    \/ Tick

SpecWorkspace == InitWorkspace /\ [][NextWorkspace]_vars

\* C20: two workspaces that are entered at the same time have different
\* directories.
C20_WorkspaceUnique ==
    \A i, j \in 1..Len(workspaces) :
        (i # j /\ workspaces[i].state = "entered" /\ workspaces[j].state = "entered")
            => workspaces[i].workspace_dir # workspaces[j].workspace_dir

(***************************************************************************)
(* Undo and redo: selection and failure paths.                             *)
(***************************************************************************)
\* C21: redo() without a thread selects, among the threads with reverted =
\* true and a revert_commit, the one whose undo happened last: right after
\* a successful undo of a thread, that thread is the one selected.
C21_RedoSelectsLastUndone ==
    (/\ undoLog # <<>>
     /\ undoLog[Len(undoLog)].op = "undo"
     /\ undoLog[Len(undoLog)].result = "ok")
    => GetMostRecentUndoneThread = undoLog[Len(undoLog)].thread

\* C22: an undo that does not succeed (the thread has no git_commit or is
\* already reverted, or the revert returns CONFLICT, ERROR or NOT_AVAILABLE)
\* leaves the metadata of every thread, the history, the live document and
\* the repository's working tree unchanged and posts one status message to
\* the thread.
C22_FailedUndoChangesNothing ==
    [][\A t \in Threads :
         (/\ budget'.ops < budget.ops
          /\ undoLog'[Len(undoLog')].op = "undo"
          /\ undoLog'[Len(undoLog')].thread = t
          /\ undoLog'[Len(undoLog')].result \in {"refused", "failed"})
         => /\ meta' = meta
            /\ history' = history
            /\ doc' = doc
            /\ mirror' = mirror
            /\ msgCount'[t] = msgCount[t] + 1
      ]_vars

\* The last operation was an undo of a committed, not reverted thread whose
\* revert passed can_revert_cleanly and failed in revert_commit.
C22_Witness ==
    /\ undoLog # <<>>
    /\ undoLog[Len(undoLog)].op = "undo"
    /\ undoLog[Len(undoLog)].result = "failed"
    /\ CanUndo(undoLog[Len(undoLog)].thread)

\* C23: a thread whose status is ACTIVE cannot be undone, even when a
\* git_commit is recorded and the thread is not reverted.
C23_ActiveNotUndoable ==
    \A t \in Threads : status[t] = "ACTIVE" => ~CanUndo(t)

(***************************************************************************)
(* The update callback.  A notifying operation is applied on its own to a  *)
(* thread of a given status: args = <<operation, status, callback>>, where *)
(* the callback is not installed ("none"), returns, or raises an           *)
(* Exception.  The outcome is the status of the thread, the number of      *)
(* messages appended and the exception that leaves the operation.          *)
(***************************************************************************)
\* _notify_update with an unguarded call of the callback.
NotifyUpdateUnguarded(cb) == IF cb = "raises" THEN "Exception" ELSE "none"

\* _notify_update: the callback is called inside try / except Exception;
\* the value is the exception that leaves the call.
NotifyUpdate(cb) ==
    LET thrown == IF cb = "raises" THEN "Exception" ELSE "none"
    IN IF thrown = "Exception" THEN "none" ELSE thrown

\* close_thread, reopen_thread, the failure handler of _process_thread,
\* ClaudeThreadManager.post_status and MergeCoordinator._post_status, which
\* calls the callback in a try block of its own.
Notifying(op, st, cb) ==
    CASE op = "close_thread" ->
            [status |-> "COMPLETED", appended |-> 0, raised |-> NotifyUpdate(cb)]
      [] op = "reopen_thread" ->
            IF st = "COMPLETED"
            THEN [status |-> "ACTIVE", appended |-> 0, raised |-> NotifyUpdate(cb)]
            ELSE [status |-> st, appended |-> 0, raised |-> "ValueError"]
      [] op = "process_thread_failed" ->
            [status |-> "FAILED", appended |-> 0, raised |-> NotifyUpdate(cb)]
      [] op = "post_status" ->
            [status |-> st, appended |-> 1, raised |-> NotifyUpdate(cb)]
      [] op = "merge_post_status" ->
            LET thrown == IF cb = "raises" THEN "Exception" ELSE "none"
            IN [status |-> st, appended |-> 1,
                raised |-> IF thrown = "Exception" THEN "none" ELSE thrown]

NotifyingCall ==
    /\ returned = <<>>
    /\ returned' = <<Notifying(args[1], args[2], args[3])>>
    /\ UNCHANGED <<doc, mirror, repo_path, history, threads, status, msgCount,
                   awaiting, meta, active_tasks, active_processes, task, sender,
                   canceller, merge_lock, pending_merges, entryLog, cancelSnap,
                   undoLog, budget, max_concurrent, args, shutdown, now, workspaces, executor>>

InitNotify ==
    /\ InitCommon
    /\ repo_path = "host"
    /\ threads = <<>>
    /\ status = [t \in Threads |-> "NONE"]
    /\ msgCount = [t \in Threads |-> 0]
    /\ budget = [sends |-> 0, cancels |-> 0, ops |-> 0]
    /\ max_concurrent = None
    /\ ShutdownIdle
    /\ WorkspaceIdle
    /\ ExecutorIdle
    /\ args \in {"close_thread", "reopen_thread", "process_thread_failed",
                 "post_status", "merge_post_status"}
                \X {"PENDING", "ACTIVE", "COMPLETED", "FAILED"}
                \X {"none", "returns", "raises"}
    /\ returned = <<>>

SpecNotify == InitNotify /\ [][NotifyingCall]_vars

\* C24: an exception raised by the update callback never leaves a notifying
\* operation: the operation ends with the same thread status, the same
\* messages appended and the same exception or normal return as with a
\* callback that returns.
C24_CallbackExceptionContained ==
    returned # <<>> => returned[1] = Notifying(args[1], args[2], "returns")

\* A COMPLETED thread has been reopened with a callback that raises.
C24_Witness ==
    /\ returned # <<>>
    /\ args = <<"reopen_thread", "COMPLETED", "raises">>
    /\ returned[1].status = "ACTIVE"
    /\ returned[1].raised = "none"

(***************************************************************************)
(* MergeCoordinator: the retained merges.                                  *)
(***************************************************************************)
\* clear_completed: only PENDING and RESOLVING merges are kept.
ClearCompleted ==
    /\ pending_merges' = SelectSeq(pending_merges,
                            LAMBDA m : m.status \in {"PENDING", "RESOLVING"})
    /\ UNCHANGED <<doc, mirror, repo_path, extVars, history, threads, status, msgCount,
                   awaiting, meta, active_tasks, active_processes, task, sender,
                   canceller, merge_lock, entryLog, cancelSnap, undoLog, budget>>

\* The engine with clear_completed called at any time.
SpecClear == Init /\ [][Next \/ ClearCompleted]_vars

\* C25: no merge is retained with status PENDING (get_pending_count() is 0
\* after any sequence of queue_merge and clear_completed calls), and
\* _detect_conflicts has found no conflict for any merge that has entered
\* queue_merge.
C25_NoPendingRetained ==
    /\ Cardinality({i \in DOMAIN pending_merges :
                       pending_merges[i].status = "PENDING"}) = 0
    /\ \A tk \in TaskIds : task[tk].conflicts = <<>>

\* A merge has entered queue_merge while a FAILED merge with an overlapping
\* range was retained.
C25_Witness ==
    \E tk \in TaskIds :
        /\ InBody(tk)
        /\ \E i \in DOMAIN pending_merges :
              /\ pending_merges[i].status = "FAILED"
              /\ ConflictingRanges(TaskRanges(tk), pending_merges[i].line_ranges) # <<>>

\* C26: when the live document has changed since the workspace baseline so
\* that the context or removed lines of a hunk no longer match the document
\* at the hunk's location, the merge ends FAILED, no commit is made, one
\* status is posted to the thread and the document is left untouched.
C26_TextDriftFails ==
    [][\A tk \in TaskIds :
         LET old(h) == SelectSeq(h.lines, LAMBDA l : l.tag \in {" ", "-"})
             matches(h) == \A j \in 1..Len(old(h)) :
                              /\ h.old_start + j - 1 <= Len(doc)
                              /\ doc[h.old_start + j - 1] = old(h)[j].text
             drift == \E n \in DOMAIN TaskDiff(tk) : ~matches(TaskDiff(tk)[n])
         IN (/\ merge_lock = tk
             /\ merge_lock' = Unlocked
             /\ task[tk].conflicts = <<>>
             /\ drift)
            => /\ task'[tk].result = "FAILED"
               /\ history' = history
               /\ doc' = doc
               /\ msgCount'[tk[1]] = msgCount[tk[1]] + 1
      ]_vars

(***************************************************************************)
(* MergeCoordinator._apply_merge on a diff of several files (the document  *)
(* and the resource files copied to the workspace), applied on its own:    *)
(* args = <<files on disk, diffs>> in the order of files_changed.          *)
(***************************************************************************)
MaxFiles == 2

\* The loop of _apply_merge from file k on: a missing file ends it with
\* False; otherwise the file is patched and written.
RECURSIVE ApplyFiles(_, _, _)
ApplyFiles(files, diffs, k) ==
    IF k > Len(files) THEN [ok |-> TRUE, files |-> files]
    ELSE IF ~files[k].exists THEN [ok |-> FALSE, files |-> files]
    ELSE ApplyFiles([files EXCEPT ![k].content = ApplyUnifiedDiff(@, diffs[k])],
                    diffs, k + 1)

ApplyFilesCall ==
    /\ returned = <<>>
    /\ returned' = <<ApplyFiles(args[1], args[2], 1)>>
    /\ UNCHANGED <<doc, mirror, repo_path, history, threads, status, msgCount,
                   awaiting, meta, active_tasks, active_processes, task, sender,
                   canceller, merge_lock, pending_merges, entryLog, cancelSnap,
                   undoLog, budget, max_concurrent, args, shutdown, now, workspaces, executor>>

\* Every file held Doc0 when the workspace was entered and was changed in
\* the workspace; some may have been deleted from disk since.
InitApply ==
    /\ InitCommon
    /\ repo_path = "host"
    /\ threads = <<>>
    /\ status = [t \in Threads |-> "NONE"]
    /\ msgCount = [t \in Threads |-> 0]
    /\ budget = [sends |-> 0, cancels |-> 0, ops |-> 0]
    /\ max_concurrent = None
    /\ ShutdownIdle
    /\ WorkspaceIdle
    /\ ExecutorIdle
    /\ \E ex \in [1..MaxFiles -> BOOLEAN],
          ed \in [1..MaxFiles -> UNION {EditChoices(t) : t \in Threads}] :
          args = << [k \in 1..MaxFiles |-> [exists |-> ex[k], content |-> Doc0]],
                    [k \in 1..MaxFiles |-> UnifiedDiff(Doc0, ApplyEdit(Doc0, ed[k]))] >>
    /\ returned = <<>>

SpecApply == InitApply /\ [][ApplyFilesCall]_vars

\* C27: when applying a merge fails on any file of a multi-file diff, no
\* file of that merge has been modified.
C27_NoPartialApplication ==
    (returned # <<>> /\ ~returned[1].ok) => returned[1].files = args[1]

\* C28: an invocation, initial or follow-up, that ends with an exception
\* (in the workspace acquisition, in the subprocess spawn or later) leaves
\* its workspace marked debug-preserved and its thread in status FAILED.
C28_FailureMarksFailed ==
    [][\A tk \in TaskIds :
         (/\ task[tk].pc \in {"spawned", "sem_wait"}
          /\ task'[tk].pc = "done")
         => /\ task'[tk].preserve
            /\ status'[tk[1]] = "FAILED"
      ]_vars

\* C29: when the VersionStore returns no hash for a merge's commit (nothing
\* is committed), the merge ends FAILED and is retained in the pending
\* list, no git_commit is recorded on the thread and one status message is
\* posted to the thread.
C29_NoHashFailsMerge ==
    [][\A tk \in TaskIds :
         (/\ merge_lock = tk
          /\ merge_lock' = Unlocked
          /\ task[tk].conflicts = <<>>
          /\ history' = history)
         => /\ task'[tk].result = "FAILED"
            /\ Len(pending_merges') = Len(pending_merges) + 1
            /\ pending_merges'[Len(pending_merges')].thread_id = tk[1]
            /\ pending_merges'[Len(pending_merges')].status = "FAILED"
            /\ meta'[tk[1]].git_commit = meta[tk[1]].git_commit
            /\ msgCount'[tk[1]] = msgCount[tk[1]] + 1
      ]_vars

\* Without version control a merge has ended FAILED and is retained.
C29_Witness ==
    /\ repo_path = "unavailable"
    /\ \E tk \in TaskIds : task[tk].result = "FAILED" /\ meta[tk[1]].git_commit = None
    /\ \E i \in DOMAIN pending_merges : pending_merges[i].status = "FAILED"

\* C30: every undo or redo whose revert_commit call fails (conflict, a
\* non-conflict failure of the revert command, a subprocess error) has run
\* the abort operation before the call returned, and an undo refused by
\* can_revert_cleanly leaves the working tree and the history unchanged.
C30_FailedRevertAborts ==
    [][\A t \in Threads :
         LET last == undoLog'[Len(undoLog')] IN
         (/\ budget'.ops < budget.ops
          /\ last.thread = t
          /\ last.op \in {"undo", "redo"})
         => /\ (last.op = "undo" /\ last.result = "failed")
                  => RevertCommit(meta[t].git_commit).aborted
            /\ (last.op = "redo" /\ last.result = "failed")
                  => RevertCommit(meta[t].revert_commit).aborted
            /\ (last.op = "undo" /\ last.result = "resolution")
                  => doc' = doc /\ mirror' = mirror /\ history' = history
      ]_vars

(***************************************************************************)
(* C31: every task that has been spawned for a thread and has not finished *)
(* is the task registered in active_tasks under its thread id.             *)
(***************************************************************************)
C31_RunningTaskRegistered ==
    \A tk \in TaskIds :
        (task[tk].pc # "none" /\ ~Finished(tk)) => active_tasks[tk[1]] = tk[2]

(***************************************************************************)
(* C32: an undo or a redo that changes the history of the repository, the  *)
(* document or its mirrored copy is made holding merge_lock, the gate of   *)
(* queue_merge.                                                            *)
(***************************************************************************)
C32_UndoHoldsGate ==
    [][ LET last == undoLog'[Len(undoLog')] IN
        (/\ budget'.ops < budget.ops
         /\ last.op \in {"undo", "redo"}
         /\ (history' # history \/ doc' # doc \/ mirror' # mirror))
            => merge_lock # Unlocked
      ]_vars

(***************************************************************************)
(* _parse_line_ranges followed by _detect_conflicts, on their own: the     *)
(* diff of a new merge with two hunks against one retained PENDING merge   *)
(* with one hunk, all on the document.                                     *)
(***************************************************************************)
MaxHunkStart == 3

\* The hunks of the diffs handed in: a hunk replaces new_count lines at
\* new_start by as many lines (the lines themselves are not looked at).
Hunks == {[old_start |-> c, old_count |-> d, new_start |-> c, new_count |-> d,
           lines |-> <<>>] : c \in 1..MaxHunkStart, d \in 0..MaxLine}

DetectConflictsCall ==
    /\ returned = <<>>
    /\ returned' = <<DetectConflicts(
                        ParseLineRanges(args[1]),
                        <<[thread_id |-> 2, status |-> "PENDING",
                           line_ranges |-> ParseLineRanges(args[2])]>>)>>
    /\ UNCHANGED <<doc, mirror, repo_path, history, threads, status, msgCount,
                   awaiting, meta, active_tasks, active_processes, task, sender,
                   canceller, merge_lock, pending_merges, entryLog, cancelSnap,
                   undoLog, budget, max_concurrent, args, shutdown, now, workspaces, executor>>

InitConflict ==
    /\ InitCommon
    /\ repo_path = "host"
    /\ threads = <<>>
    /\ status = [t \in Threads |-> "NONE"]
    /\ msgCount = [t \in Threads |-> 0]
    /\ budget = [sends |-> 0, cancels |-> 0, ops |-> 0]
    /\ max_concurrent = None
    /\ ShutdownIdle
    /\ WorkspaceIdle
    /\ ExecutorIdle
    /\ \E a1, a2, b \in Hunks : args = << <<a1, a2>>, <<b>> >>
    /\ returned = <<>>

\* queue_merge with conflicts detected: _create_resolution_thread appends
\* the resolution thread to the thread list of the thread manager.
CreateResolutionThreadCall ==
    /\ returned # <<>>
    /\ returned[1] # <<>>
    /\ threads = <<>>
    /\ threads' = Append(threads, MergeResolutionThread)
    /\ UNCHANGED <<doc, mirror, repo_path, history, status, msgCount,
                   awaiting, meta, active_tasks, active_processes, task, sender,
                   canceller, merge_lock, pending_merges, entryLog, cancelSnap,
                   undoLog, budget, extVars>>

SpecConflict == InitConflict /\ [][DetectConflictsCall \/ CreateResolutionThreadCall]_vars

InitSendCancel ==
    /\ InitCommon
    /\ ExtDefault
    /\ repo_path = "host"
    /\ threads = <<>>
    /\ status = [t \in Threads |-> "NONE"]
    /\ msgCount = [t \in Threads |-> 0]
    /\ budget = [sends |-> 1, cancels |-> 1, ops |-> 0]

SpecSendCancel == InitSendCancel /\ [][Next \/ NextSend]_vars

\* C36: whenever no task of a thread is in flight (spawned and not yet
\* ended) and no send_message on the thread is in progress, the thread's
\* awaiting_response flag is false.
C36_AwaitingCleared ==
    \A t \in Threads :
        (/\ \A k \in 1..MaxTasksPer : task[<<t, k>>].pc = "none" \/ Finished(<<t, k>>)
         /\ \A s \in 1..MaxSends : sender[<<t, s>>].phase = "idle")
            => ~awaiting[t]

(***************************************************************************)
(* _read_response and what the invocation does with its result, on their   *)
(* own.  outcome: "exit" (communicate returns within 300 seconds),         *)
(* "timeout" (wait_for raises TimeoutError) or "error" (communicate raises *)
(* another exception).                                                     *)
(***************************************************************************)
TimedOutText == <<"Error: Claude response timed out">>

\* _read_response without the handler of the timeout.
ReadResponseNoHandler(outcome, stdout, stderr) ==
    CASE outcome = "exit" ->
            [raised |-> "none",
             value |-> IF Strip(stdout) # <<>> THEN Strip(stdout) ELSE Strip(stderr)]
      [] outcome = "timeout" -> [raised |-> "TimeoutError", value |-> <<>>]
      [] OTHER -> [raised |-> "none", value |-> <<"Error reading response: ">>]

\* _read_response: standard output, or standard error when that is empty;
\* a canned text for the timeout and for any other exception.
ReadResponse(outcome, stdout, stderr) ==
    CASE outcome = "exit" ->
            [raised |-> "none",
             value |-> IF Strip(stdout) # <<>> THEN Strip(stdout) ELSE Strip(stderr)]
      [] outcome = "timeout" -> [raised |-> "none", value |-> TimedOutText]
      [] OTHER -> [raised |-> "none", value |-> <<"Error reading response: ">>]

\* The invocation from the call of _read_response on, for a thread of
\* status st: the response is appended as the assistant's message and the
\* status is left alone; an exception is handled by _process_thread
\* (initial: FAILED) or _process_message (followup: status left alone).
\* send_raises: what the first test of a later send_message finds.
Invocation(kind, st, outcome, stdout, stderr) ==
    LET r == ReadResponse(outcome, stdout, stderr)
        after == IF r.raised # "none" /\ kind = "initial" THEN "FAILED" ELSE st
    IN [response |-> IF r.raised = "none" THEN <<r.value>> ELSE <<>>,
        status |-> after,
        send_raises |-> after = "FAILED"]

InvocationCall ==
    /\ returned = <<>>
    /\ returned' = <<Invocation(args[1], args[2], args[3], args[4], args[5])>>
    /\ UNCHANGED <<doc, mirror, repo_path, history, threads, status, msgCount,
                   awaiting, meta, active_tasks, active_processes, task, sender,
                   canceller, merge_lock, pending_merges, entryLog, cancelSnap,
                   undoLog, budget, max_concurrent, args, shutdown, now, workspaces, executor>>

\* The thread is ACTIVE while its subprocess runs unless it was closed.
InitRead ==
    /\ InitCommon
    /\ repo_path = "host"
    /\ threads = <<>>
    /\ status = [t \in Threads |-> "NONE"]
    /\ msgCount = [t \in Threads |-> 0]
    /\ budget = [sends |-> 0, cancels |-> 0, ops |-> 0]
    /\ max_concurrent = None
    /\ ShutdownIdle
    /\ WorkspaceIdle
    /\ ExecutorIdle
    /\ args \in {"initial", "followup"} \X {"ACTIVE", "COMPLETED"}
                \X {"exit", "timeout", "error"}
                \X Texts({"ok", " "}) \X Texts({"warn", " "})
    /\ returned = <<>>

SpecRead == InitRead /\ [][InvocationCall]_vars

\* C37: when the subprocess exceeds the 300-second ceiling, the response
\* recorded for the invocation is the canned error text, an ACTIVE thread
\* stays ACTIVE and no thread becomes FAILED, and a later send_message on
\* the thread is not refused.
C37_TimeoutKeepsThreadActive ==
    (returned # <<>> /\ args[3] = "timeout") =>
        /\ returned[1].response = <<TimedOutText>>
        /\ returned[1].status = args[2]
        /\ returned[1].status # "FAILED"
        /\ ~returned[1].send_raises

\* The initial invocation of an ACTIVE thread has timed out.
C37_Witness ==
    /\ returned # <<>>
    /\ args[1] = "initial" /\ args[2] = "ACTIVE" /\ args[3] = "timeout"
    /\ returned[1].response = <<TimedOutText>>
    /\ returned[1].status = "ACTIVE"

(***************************************************************************)
(* The event loop runs every task that is ready: a task inside queue_merge *)
(* goes on to the end of the call (nothing in the body suspends), a task   *)
(* waiting for merge_lock acquires it when it is free (asyncio.Lock wakes  *)
(* its waiters in turn), and a cancelled task is resumed.  QmApply is      *)
(* enabled whenever a task is inside queue_merge and QmEnter whenever an   *)
(* uncancelled task waits with the lock free, and each disables itself, so *)
(* their weak fairness is written with these state predicates.             *)
(***************************************************************************)
LiveMerge ==
    /\ Spec
    /\ []<>(\A tk \in TaskIds : ~InBody(tk))
    /\ []<>(\A tk \in TaskIds :
               ~(task[tk].pc = "qm_wait" /\ ~task[tk].cancelReq /\ merge_lock = Unlocked))
    /\ WF_vars(\E tk \in TaskIds : TaskCancelled(tk[1], tk[2]))

MaxRequests == 3

\* add_edit_request: the request is appended as PENDING, and a processing
\* task is created unless is_processing is set.
AddEditRequest ==
    /\ Len(executor.queue) < MaxRequests
    /\ executor' = [executor EXCEPT
                      !.queue = Append(@, "PENDING"),
                      !.tasks = IF executor.is_processing THEN @
                                ELSE Append(@, [pc |-> "created", request |-> 0])]
    /\ UNCHANGED <<doc, mirror, repo_path, history, threads, status, msgCount,
                   awaiting, meta, active_tasks, active_processes, task, sender,
                   canceller, merge_lock, pending_merges, entryLog, cancelSnap,
                   undoLog, budget, max_concurrent, args, returned, shutdown, now,
                   workspaces>>

\* The head of the loop of _process_queue run by task i on queue q: the
\* first PENDING request becomes IN_PROGRESS and the task waits in
\* _execute_edit; without one the loop ends and is_processing is cleared.
ProcessQueueLoop(i, q) ==
    LET pending == {r \in 1..Len(q) : q[r] = "PENDING"} IN
    IF pending = {}
    THEN [executor EXCEPT !.queue = q, !.is_processing = FALSE,
                          !.tasks[i] = [pc |-> "ended", request |-> 0]]
    ELSE LET request == CHOOSE r \in pending : \A o \in pending : r <= o IN
         [executor EXCEPT !.queue = [q EXCEPT ![request] = "IN_PROGRESS"],
                          !.is_processing = TRUE,
                          !.tasks[i] = [pc |-> "executing", request |-> request],
                          !.started = Append(@, request)]

\* A created task runs for the first time: is_processing is set and the
\* loop entered.
ProcessQueueStart(i) ==
    /\ executor.tasks[i].pc = "created"
    /\ executor' = ProcessQueueLoop(i, executor.queue)
    /\ UNCHANGED <<doc, mirror, repo_path, history, threads, status, msgCount,
                   awaiting, meta, active_tasks, active_processes, task, sender,
                   canceller, merge_lock, pending_merges, entryLog, cancelSnap,
                   undoLog, budget, max_concurrent, args, returned, shutdown, now,
                   workspaces>>

\* _execute_edit returns its result: the request becomes COMPLETED or
\* FAILED, the callback is notified and the loop goes round.
ProcessQueueResume(i) ==
    /\ executor.tasks[i].pc = "executing"
    /\ \E success \in BOOLEAN :
          executor' = ProcessQueueLoop(i,
                         [executor.queue EXCEPT ![executor.tasks[i].request] =
                             IF success THEN "COMPLETED" ELSE "FAILED"])
    /\ UNCHANGED <<doc, mirror, repo_path, history, threads, status, msgCount,
                   awaiting, meta, active_tasks, active_processes, task, sender,
                   canceller, merge_lock, pending_merges, entryLog, cancelSnap,
                   undoLog, budget, max_concurrent, args, returned, shutdown, now,
                   workspaces>>

\* The executor on its own, in a running event loop.
SpecExecutor ==
    /\ Init
    /\ [][\/ AddEditRequest
          \/ \E i \in 1..Len(executor.tasks) : ProcessQueueStart(i)
          \/ \E i \in 1..Len(executor.tasks) : ProcessQueueResume(i)]_vars

\* C39: at most one request is IN_PROGRESS at any time, and the requests
\* are started in the order in which they were added.
C39_SerialQueue ==
    /\ Cardinality({r \in 1..Len(executor.queue) : executor.queue[r] = "IN_PROGRESS"}) <= 1
    /\ \A a, b \in 1..Len(executor.started) :
          a < b => executor.started[a] < executor.started[b]

(***************************************************************************)
(* C40: every hash recorded in a thread's metadata (git_commit,            *)
(* revert_commit, redo_commit) is the hash of a commit of the repository,  *)
(* and the history only grows: every step leaves the commits that exist    *)
(* as they are.                                                            *)
(***************************************************************************)
C40_HashesInHistory ==
    /\ [](\A t \in Threads :
            \A h \in {meta[t].git_commit, meta[t].revert_commit, meta[t].redo_commit} :
                h # None => h \in 1..Len(history))
    /\ [][ /\ Len(history') >= Len(history)
           /\ SubSeq(history', 1, Len(history)) = history ]_vars

\* A thread was merged, undone and redone: its three hashes are recorded.
C40_Witness ==
    \E t \in Threads :
        /\ meta[t].git_commit # None
        /\ meta[t].revert_commit # None
        /\ meta[t].redo_commit # None
        /\ meta[t].redo_commit = Len(history)
====
